---- MODULE Spec2Model ----
(***************************************************************************)
(* ltfs-tools: the verified transfer pipeline (transfer.py), its recovery  *)
(* entry points (cli.py recover / finalize), manifest verification         *)
(* (verify.py) and the SQLite catalog (catalog_db.py).                     *)
(*                                                                         *)
(* Text is modelled as a sequence of one-character strings.  Three         *)
(* characters stand for Unicode code points: "e" is U+0065, "^" is the     *)
(* combining acute accent U+0301 and "E" is the precomposed U+00E9, so     *)
(* <<"e","^">> is the NFD spelling and <<"E">> the NFC spelling of one     *)
(* visible name.  File contents are sequences of bytes.                    *)
(***************************************************************************)
EXTENDS Integers, Sequences, FiniteSets, Bags, TLC

VARIABLES
    clock,      \* wall clock, in whole seconds (datetime.now())
    dest,       \* files on the mounted volume: <<source_name, path>> -> file
    logFiles,   \* names of the transfer logs in config.log_dir
    mhlFiles,   \* config.mhl_dir: file name -> Manifest document
    mirror,     \* zero-byte placeholders: {<<tape_name, source_name, path>>}
    db,         \* committed content of catalog.db: [tapes, files, fts, seq]
    job,        \* arguments and environment of the running job
    pc,         \* position of the running job
    ledger,     \* source_hashes / file_hashes of the running job
    result,     \* TransferResult being built, and the error a job ended with
    vresult,    \* VerifyResult of verify()
    console,    \* phase banners printed by the running job
    pre,        \* catalog and manifests as they were when the job started
    njobs,      \* jobs started so far
    mnt         \* mounted mount points, and the last mount/unmount call

vars == <<clock, dest, logFiles, mhlFiles, mirror, db, job, pc, ledger, result, vresult, console, vresult, pre, njobs, mnt>>

(***************************************************************************)
(* Bounds of the model.                                                    *)
(***************************************************************************)
MaxFiles == 2

MaxClock == 1

MaxJobs == 2

DigestBits == 3
\* Largest row id the files table hands out in the specifications that delete
MaxId == 3

NULL == "NULL"

\* Markers kept apart from files ([data, readable]): a directory on the volume, and
\* a destination name the copy tool leaves as it was.
Dir == [dir |-> TRUE]

Skip == [skip |-> TRUE]

(***************************************************************************)
(* Generic helpers.                                                        *)
(***************************************************************************)
RECURSIVE Pow2(_)
Pow2(n) == IF n = 0 THEN 1 ELSE 2 * Pow2(n - 1)

Range(s) == {s[i] : i \in 1..Len(s)}

Perms(S) == {s \in [1..Cardinality(S) -> S] : Range(s) = S}

SubsetsUpTo(S, n) == {T \in SUBSET S : Cardinality(T) <= n}

RECURSIVE SumOver(_, _)
SumOver(S, f) == IF S = {} THEN 0 ELSE LET x == CHOOSE y \in S : TRUE IN f[x] + SumOver(S \ {x}, f)

(***************************************************************************)
(* utils.py: canonical (NFC) form of a path.  unicodedata.normalize("NFC") *)
(* decomposes canonically and then composes canonically.                   *)
(***************************************************************************)
RECURSIVE Decompose(_)
Decompose(s) ==
    IF s = <<>> THEN <<>>
    ELSE (IF Head(s) = "E" THEN <<"e", "^">> ELSE <<Head(s)>>) \o Decompose(Tail(s))

RECURSIVE Compose(_)
Compose(s) ==
    IF s = <<>> THEN <<>>
    ELSE IF Len(s) >= 2 /\ s[1] = "e" /\ s[2] = "^" THEN <<"E">> \o Compose(Tail(Tail(s)))
    ELSE <<Head(s)>> \o Compose(Tail(s))

normalize_path(p) == Compose(Decompose(p))

(***************************************************************************)
(* hash.py: hash_file streams the bytes of a file into a fixed-width       *)
(* digest.  xxh64 itself is a library; it is modelled by an order-         *)
(* dependent streaming fold of DigestBits bits, which (like any fixed-     *)
(* width digest) has collisions.                                           *)
(***************************************************************************)
RECURSIVE DigestFold(_, _)
DigestFold(h, bytes) ==
    IF bytes = <<>> THEN h
    ELSE DigestFold((h * 3 + Head(bytes) + 1) % Pow2(DigestBits), Tail(bytes))

hash_file(data) == DigestFold(1, data)

st_size(data) == Len(data)

(***************************************************************************)
(* transfer.py: _should_exclude and fnmatch.fnmatch (POSIX: no case        *)
(* folding), for patterns built from "*", "?" and literal characters.      *)
(***************************************************************************)
RECURSIVE fnmatch(_, _)
fnmatch(name, pat) ==
    IF pat = <<>> THEN name = <<>>
    ELSE IF Head(pat) = "*"
         THEN fnmatch(name, Tail(pat)) \/ (name # <<>> /\ fnmatch(Tail(name), pat))
    ELSE /\ name # <<>>
         /\ (Head(pat) = "?" \/ Head(pat) = Head(name))
         /\ fnmatch(Tail(name), Tail(pat))

RECURSIVE SplitOn(_, _, _)
SplitOn(s, sep, cur) ==
    IF s = <<>> THEN <<cur>>
    ELSE IF Head(s) = sep THEN <<cur>> \o SplitOn(Tail(s), sep, <<>>)
    ELSE SplitOn(Tail(s), sep, Append(cur, Head(s)))

PathParts(p) == SelectSeq(SplitOn(p, "/", <<>>), LAMBDA part : part # <<>>)

Contains(s, c) == \E i \in 1..Len(s) : s[i] = c

IsSubstring(sub, s) ==
    \E i \in 0..(Len(s) - Len(sub)) : SubSeq(s, i + 1, i + Len(sub)) = sub

PatternExcludes(path, pattern) ==
    LET parts == PathParts(path)
        wild == Contains(pattern, "*") \/ Contains(pattern, "?")
    IN  IF pattern # <<>> /\ pattern[Len(pattern)] = "/"
        THEN LET dir_pattern == SubSeq(pattern, 1, Len(pattern) - 1)
             IN  \E i \in 1..Len(parts) :
                    parts[i] = dir_pattern \/ fnmatch(parts[i], dir_pattern)
        ELSE IF wild /\ Contains(pattern, "/") THEN fnmatch(path, pattern)
        ELSE IF wild THEN \E i \in 1..Len(parts) : fnmatch(parts[i], pattern)
        ELSE IsSubstring(pattern, path)

should_exclude(path, patterns) ==
    \E i \in 1..Len(patterns) : PatternExcludes(path, patterns[i])

\* config.excludes of the modelled Config: one pattern of each of the four kinds
\* (exact substring, component glob, directory, full-path glob).
Excludes ==
    << <<".", "D">>, <<"*", ".", "t">>, <<".", "T", "/">>, <<"*", "/", "c", "/", "*">> >>

(***************************************************************************)
(* Finite maps.                                                            *)
(***************************************************************************)
EmptyMap == [x \in {} |-> NULL]

Put(f, k, v) == [x \in DOMAIN f \cup {k} |-> IF x = k THEN v ELSE f[x]]

Drop(f, K) == [x \in DOMAIN f \ K |-> f[x]]

(***************************************************************************)
(* catalog_db.py: the tapes and files tables and the full-text index.      *)
(* Each operator below is one "with self._connection()" block: one SQLite  *)
(* transaction, committed as a whole or rolled back as a whole.  A files   *)
(* row is keyed by the UNIQUE pair <<tape_name, path>> and carries its     *)
(* AUTOINCREMENT id; seq is the largest id handed out so far; fts is the   *)
(* bag of <<rowid, path>> rows of files_fts.  A timestamp is <<>> (NULL)   *)
(* or <<t>>, t in whole seconds.                                           *)
(***************************************************************************)
EmptyDB == [tapes |-> EmptyMap, files |-> EmptyMap, fts |-> EmptyBag, seq |-> 0]

FilesOfTape(files, tape_name) == {k \in DOMAIN files : k[1] = tape_name}

SizeOf(files) == [k \in DOMAIN files |-> files[k].size]

\* The insert, were it INSERT OR REPLACE: replacing the volume row cascades to
\* the rows of files that reference it.
add_tape_replacing(d, name) ==
    [d EXCEPT !.tapes = Put(@, name, [file_count |-> 0, total_bytes |-> 0]),
              !.files = Drop(@, FilesOfTape(d.files, name))]

add_tape(d, name) ==
    IF name \in DOMAIN d.tapes
    THEN d
    ELSE [d EXCEPT !.tapes = Put(@, name, [file_count |-> 0, total_bytes |-> 0])]

\* Trigger files_ai: AFTER INSERT, index the new row.
files_ai(fts, new_id, new_path) == fts (+) SetToBag({<<new_id, new_path>>})

\* Trigger files_ad: AFTER DELETE, take the old row out of the index.
files_ad(fts, old_id, old_path) == fts (-) SetToBag({<<old_id, old_path>>})

\* The update trigger, were it to index the new row without removing the old one.
files_au_keeping_old(fts, old_id, old_path, new_id, new_path) ==
    files_ai(fts, new_id, new_path)

\* Trigger files_au: AFTER UPDATE, remove the old row and index the new one.
files_au(fts, old_id, old_path, new_id, new_path) ==
    files_ai(files_ad(fts, old_id, old_path), new_id, new_path)

\* The key of the upsert, were the path taken as given.
ConflictKeyRaw(tape_name, path) == <<tape_name, path>>

\* Lines 268-271: the row's path is normalize_path(path); the conflict target of
\* the upsert is (tape_name, path).
ConflictKey(tape_name, path) == <<tape_name, normalize_path(path)>>

\* INSERT INTO files ... ON CONFLICT(tape_name, path) DO UPDATE, once per input
\* tuple; an execute that raises sqlite3.Error (index in failing) is skipped.
\* t is [files, fts, seq].
RECURSIVE UpsertFiles(_, _, _, _, _, _)
UpsertFiles(t, tape_name, batch, failing, archived_at, i) ==
    IF i > Len(batch) THEN t
    ELSE IF i \in failing THEN UpsertFiles(t, tape_name, batch, failing, archived_at, i + 1)
    ELSE LET key == ConflictKey(tape_name, batch[i].path)
             id == IF key \in DOMAIN t.files THEN t.files[key].id ELSE t.seq + 1
             row == [id |-> id, size |-> batch[i].size, mtime |-> batch[i].mtime,
                     xxhash |-> batch[i].xxhash, archived_at |-> archived_at]
         IN  UpsertFiles(
                [files |-> Put(t.files, key, row),
                 fts |-> IF key \in DOMAIN t.files
                         THEN files_au(t.fts, id, key[2], id, key[2])
                         ELSE files_ai(t.fts, id, key[2]),
                 seq |-> IF key \in DOMAIN t.files THEN t.seq ELSE id],
                tape_name, batch, failing, archived_at, i + 1)

AddedCount(batch, failing) == Cardinality((1..Len(batch)) \ failing)

AddedBytes(batch, failing) ==
    SumOver((1..Len(batch)) \ failing, [i \in 1..Len(batch) |-> batch[i].size])

\* A slip the stats update must not make: adding this batch's counters to the row.
UpdateTapeStatsAdding(tapes, files, tape_name, added, total_bytes) ==
    [tapes EXCEPT ![tape_name] = [file_count |-> @.file_count + added,
                                  total_bytes |-> @.total_bytes + total_bytes]]

\* UPDATE tapes SET file_count = (SELECT COUNT(*) ...), total_bytes = (SELECT SUM(size) ...)
UpdateTapeStats(tapes, files, tape_name, added, total_bytes) ==
    [tapes EXCEPT ![tape_name] =
        [file_count |-> Cardinality(FilesOfTape(files, tape_name)),
         total_bytes |-> SumOver(FilesOfTape(files, tape_name), SizeOf(files))]]

\* archived_at is the argument, datetime.now() when the caller passes none.
add_files(d, tape_name, batch, failing, archived_at) ==
    IF batch = <<>> THEN d
    ELSE LET ensured == add_tape(d, tape_name).tapes
             t == UpsertFiles([files |-> d.files, fts |-> d.fts, seq |-> d.seq],
                              tape_name, batch, failing, archived_at, 1)
         IN  [tapes |-> UpdateTapeStats(ensured, t.files, tape_name,
                                        AddedCount(batch, failing), AddedBytes(batch, failing)),
              files |-> t.files, fts |-> t.fts, seq |-> t.seq]

add_files_result(batch, failing) == IF batch = <<>> THEN 0 ELSE AddedCount(batch, failing)

\* The deletion, were the rows of the volume left in place.
delete_tape_record_only(d, tape_name) ==
    [d EXCEPT !.tapes = Drop(d.tapes, {tape_name})]

\* DELETE FROM files WHERE tape_name = ? (files_ad fires once per row), then
\* DELETE FROM tapes WHERE name = ?.
delete_tape(d, tape_name) ==
    LET gone == FilesOfTape(d.files, tape_name)
    IN  [tapes |-> Drop(d.tapes, {tape_name}),
         files |-> Drop(d.files, gone),
         fts |-> d.fts (-) SetToBag({<<d.files[k].id, k[2]>> : k \in gone}),
         seq |-> d.seq]

\* cursor.rowcount > 0 of the DELETE FROM tapes.
delete_tape_result(d, tape_name) == tape_name \in DOMAIN d.tapes

(***************************************************************************)
(* mhl.py: a Manifest (MHL) in memory and the document save writes.        *)
(* to_element and from_element both put the path through normalize_path;  *)
(* dates are written to the second, the unit of time of the model.         *)
(***************************************************************************)
NormalizeEntries(hashes) ==
    [i \in 1..Len(hashes) |-> [hashes[i] EXCEPT !.file = normalize_path(@)]]

MhlToXml(mhl) == [mhl EXCEPT !.hashes = NormalizeEntries(@)]

MhlLoad(doc) == [doc EXCEPT !.hashes = NormalizeEntries(@)]

\* import_from_mhl: the tape name is the argument, else tapeinfo/name, else the
\* file stem up to its first "_" (file names are modelled as
\* <<tape_name, source_name, timestamp>>, the names holding no "_").
ImportTapeName(mhl, fname, tape_name) ==
    IF tape_name # NULL THEN tape_name
    ELSE IF mhl.tape_info # NULL /\ mhl.tape_info # "" THEN mhl.tape_info
    ELSE fname[1]

ImportBatch(mhl) ==
    [i \in 1..Len(mhl.hashes) |->
        [path |-> mhl.hashes[i].file, size |-> mhl.hashes[i].size,
         mtime |-> mhl.hashes[i].last_modification_date,
         xxhash |-> mhl.hashes[i].xxhash64be]]

\* import_from_mhl, lines 655-670: add_tape, then add_files with
\* archived_at = creator_info.finish_date, which add_files replaces by now when
\* the Manifest has none.
import_from_mhl(d, doc, fname, tape_name, now) ==
    LET mhl == MhlLoad(doc)
        name == ImportTapeName(mhl, fname, tape_name)
    IN  add_files(add_tape(d, name), name, ImportBatch(mhl), {},
                  IF mhl.finish_date = <<>> THEN now ELSE mhl.finish_date)

(***************************************************************************)
(* Files and trees.  A file is [data, readable, mtime]; readable = FALSE is *)
(* a file that stat() sees but whose open/read raises OSError.  A tree     *)
(* maps the relative paths of its regular files to files.                  *)
(***************************************************************************)
\* st_mtime of every source file of the modelled trees.
Mtime == <<1>>

Trees(paths, files, n) == UNION {[S -> files] : S \in SubsetsUpTo(paths, n)}

\* The name a copied file gets at the destination.  An LTFS volume stores names
\* in NFC (transfer.py: "LTFS uses NFC, source may use NFD"); any other
\* destination filesystem keeps the name the copy tool passes.
DestName(ltfs, p) == IF ltfs THEN normalize_path(p) ELSE p

\* config.mount_point.name
MountPointName == "LTFS"

\* rglob("*") filtered by is_file(), relative to the walked directory
DestFiles(d, source_name) ==
    {k[2] : k \in {x \in DOMAIN d : x[1] = source_name /\ d[x] # Dir}}

\* The directory mount_point / source_name itself is the key <<source_name, <<>>>>.
DestDirExists(d, source_name) == <<source_name, <<>>>> \in DOMAIN d

(***************************************************************************)
(* transfer.py: check_source and phase 1 (the ledger source_hashes, a dict *)
(* in insertion order: a sequence of [path, hash, size], unique by path).  *)
(***************************************************************************)
check_source(tree) ==
    [file_count |-> Cardinality(DOMAIN tree),
     total_size |-> SumOver(DOMAIN tree, [p \in DOMAIN tree |-> st_size(tree[p].data)])]

DictKeys(d) == {d[i].path : i \in 1..Len(d)}

DictGet(d, key) == d[CHOOSE i \in 1..Len(d) : d[i].path = key]

DictSet(d, key, h, size) ==
    IF key \in DictKeys(d)
    THEN [i \in 1..Len(d) |-> IF d[i].path = key THEN [path |-> key, hash |-> h, size |-> size] ELSE d[i]]
    ELSE Append(d, [path |-> key, hash |-> h, size |-> size])

LedgerKey(rel_path) == normalize_path(rel_path)

RECURSIVE HashSource(_, _, _, _)
HashSource(tree, walk, i, acc) ==
    IF i > Len(walk) THEN acc
    ELSE LET rel_path == walk[i]
         IN  IF should_exclude(rel_path, Excludes)
             THEN HashSource(tree, walk, i + 1, [acc EXCEPT !.excluded = Append(@, rel_path)])
             ELSE IF ~tree[rel_path].readable
             THEN HashSource(tree, walk, i + 1, acc)
             ELSE HashSource(tree, walk, i + 1,
                     [acc EXCEPT !.hashes = DictSet(@, LedgerKey(rel_path),
                                                    hash_file(tree[rel_path].data),
                                                    st_size(tree[rel_path].data))])

(***************************************************************************)
(* transfer.py phase 3: the walk over the destination, then the search for *)
(* ledger keys the destination does not hold.                              *)
(***************************************************************************)
\* The comparison of line 406, were a differing digest let through.
HashesAgreeAlways(source_hash, dest_hash) == TRUE

HashesAgree(source_hash, dest_hash) == source_hash = dest_hash

RECURSIVE VerifyWalk(_, _, _, _, _, _)
VerifyWalk(d, source_name, hashes, walk, i, res) ==
    IF i > Len(walk) THEN res
    ELSE LET rel_path == normalize_path(walk[i])
             file == d[<<source_name, walk[i]>>]
         IN  IF rel_path \notin DictKeys(hashes)
             THEN VerifyWalk(d, source_name, hashes, walk, i + 1, res)
             ELSE IF ~file.readable
             THEN VerifyWalk(d, source_name, hashes, walk, i + 1,
                     [res EXCEPT !.files_failed = @ + 1,
                                 !.failed_files = Append(@, <<rel_path, "read error">>)])
             ELSE IF HashesAgree(DictGet(hashes, rel_path).hash, hash_file(file.data))
             THEN VerifyWalk(d, source_name, hashes, walk, i + 1,
                     [res EXCEPT !.files_verified = @ + 1])
             ELSE VerifyWalk(d, source_name, hashes, walk, i + 1,
                     [res EXCEPT !.files_failed = @ + 1,
                                 !.failed_files = Append(@, <<rel_path, "hash mismatch">>)])

\* The missing-file pass, were it left out.
MissingKeysNone(d, source_name, hashes) == {}

MissingKeys(d, source_name, hashes) ==
    {k \in DictKeys(hashes) : k \notin {normalize_path(p) : p \in DestFiles(d, source_name)}}

\* The missing-file pass, were a missing file counted but not listed.
RECURSIVE MarkMissingCountOnly(_, _, _, _)
MarkMissingCountOnly(hashes, missing, i, res) ==
    IF i > Len(hashes) THEN res
    ELSE IF hashes[i].path \in missing
    THEN MarkMissingCountOnly(hashes, missing, i + 1, [res EXCEPT !.files_failed = @ + 1])
    ELSE MarkMissingCountOnly(hashes, missing, i + 1, res)

RECURSIVE MarkMissing(_, _, _, _)
MarkMissing(hashes, missing, i, res) ==
    IF i > Len(hashes) THEN res
    ELSE IF hashes[i].path \in missing
    THEN MarkMissing(hashes, missing, i + 1,
            [res EXCEPT !.files_failed = @ + 1,
                        !.failed_files = Append(@, <<hashes[i].path, "missing">>)])
    ELSE MarkMissing(hashes, missing, i + 1, res)

(***************************************************************************)
(* transfer.py phases 4 and 5: the Manifest built from the ledger, its     *)
(* file name, the placeholders and the catalog batch.                      *)
(***************************************************************************)
\* Lines 468-473 and 530-534: the mtime of destination / rel_path, None when the
\* stat raises OSError.
TapeMtime(d, source_name, rel_path) ==
    IF rel_path \in DestFiles(d, source_name) THEN d[<<source_name, rel_path>>].mtime ELSE <<>>

MhlFromLedger(tape_name, hashes, d, source_name, now) ==
    [tape_info |-> tape_name,
     finish_date |-> now,
     hashes |-> [i \in 1..Len(hashes) |->
        [file |-> hashes[i].path, size |-> hashes[i].size, xxhash64be |-> hashes[i].hash,
         last_modification_date |-> TapeMtime(d, source_name, hashes[i].path)]]]

\* f"{tape_name}_{source_name}_{timestamp}.mhl", timestamp to the second
MhlName(tape_name, source_name, timestamp) == <<tape_name, source_name, timestamp>>

Placeholders(tape_name, source_name, keys) == {<<tape_name, source_name, k>> : k \in keys}

\* The batch, were only the first ledger entry handed over.
DbBatchHead(hashes, d, source_name) ==
    [i \in 1..(IF Len(hashes) > 0 THEN 1 ELSE 0) |->
        [path |-> hashes[i].path, size |-> hashes[i].size,
         mtime |-> TapeMtime(d, source_name, hashes[i].path), xxhash |-> hashes[i].hash]]

DbBatch(hashes, d, source_name) ==
    [i \in 1..Len(hashes) |->
        [path |-> hashes[i].path, size |-> hashes[i].size,
         mtime |-> TapeMtime(d, source_name, hashes[i].path), xxhash |-> hashes[i].hash]]

(***************************************************************************)
(* The initial state: empty archive directories, an empty catalog, a fresh *)
(* volume, no command running.                                             *)
(***************************************************************************)
\* No filesystem is mounted and no mount or unmount call has been made.
NoMount ==
    [mounted |-> {}, op |-> NULL, mount_point |-> NULL, before |-> {}, platform |-> NULL,
     driver |-> FALSE, cmd |-> NULL, raised |-> NULL, returned |-> NULL, printed |-> <<>>]

Idle ==
    /\ pc = "idle"
    /\ job = NULL
    /\ ledger = <<>>
    /\ result = NULL
    /\ vresult = NULL
    /\ console = <<>>

InitState ==
    /\ clock = 0
    /\ dest = EmptyMap
    /\ logFiles = {}
    /\ mhlFiles = EmptyMap
    /\ mirror = {}
    /\ db = EmptyDB
    /\ Idle
    /\ pre = NULL
    /\ njobs = 0
    /\ mnt = NoMount

NotDB == <<clock, dest, logFiles, mhlFiles, mirror, job, pc, ledger, result, vresult, console, pre, njobs, mnt>>

(***************************************************************************)
(* The job: transfer() of transfer.py, one action per phase.  The process  *)
(* can be killed between any two steps (Abort).                            *)
(***************************************************************************)
NewResult(counted) ==
    [files_total |-> counted.file_count, bytes_total |-> counted.total_size,
     files_transferred |-> 0, files_verified |-> 0, files_failed |-> 0,
     failed_files |-> <<>>, mhl_path |-> <<>>, log_path |-> <<>>, catalog_path |-> <<>>,
     error |-> NULL, cause |-> NULL]

NothingCounted == [file_count |-> 0, total_size |-> 0]

\* The exception a job ends with; the TransferResult built so far is kept beside it.
Raise(res, type, cause) == [res EXCEPT !.error = type, !.cause = cause]

\* What the archive held when the job started, the rows of the job's batch that
\* the database rejected (add_files skips them, transfer never learns which), and
\* the number of files the job's "files added" line prints (<<>>: not printed).
Snapshot == [db |-> db, mirror |-> mirror, mhlFiles |-> mhlFiles, skipped |-> {}, printed_added |-> <<>>]

TapeNameOf(tape_arg, default) == IF tape_arg = NULL THEN default ELSE tape_arg

\* Where control goes after check_source, were the source never hashed.
AfterCountSkippingHash(dry_run) == IF dry_run THEN "done" ELSE "phase2"

\* Where control goes after check_source, were dry_run never looked at.
AfterCountIgnoringDryRun(dry_run) == "phase1"

\* Lines 175-178: a dry run returns the counted result.
AfterCount(dry_run) == IF dry_run THEN "done" ELSE "phase1"

\* Where control goes after the copy, were the Manifest phase passed over.
AfterCopySkippingManifest(verify) == "phase5a"

\* Line 341: phase 3 runs only if verify is set.
AfterCopy(verify) == IF verify THEN "phase3" ELSE "phase4"

\* Lines 147-178: the checks, the names, the timestamp, check_source, dry_run.
TransferStart(names, tapes, trees, volumes) ==
    /\ pc = "idle"
    /\ njobs < MaxJobs
    /\ \E source_name \in names, tape_arg \in tapes, tree \in trees,
          dry_run \in BOOLEAN, verify \in BOOLEAN,
          source_exists \in BOOLEAN, is_mounted \in BOOLEAN, ltfs \in volumes :
          /\ source_exists \/ tree = EmptyMap
          /\ job' = [kind |-> "transfer", source_name |-> source_name, ltfs |-> ltfs,
                     tape_name |-> TapeNameOf(tape_arg, MountPointName), tree |-> tree,
                     dry_run |-> dry_run, verify |-> verify, timestamp |-> clock]
          /\ IF ~source_exists
             THEN /\ pc' = "raised"
                  /\ result' = Raise(NewResult(NothingCounted), "TransferError", "Source not found")
             ELSE IF ~is_mounted
             THEN /\ pc' = "raised"
                  /\ result' = Raise(NewResult(NothingCounted), "TransferError", "No tape mounted")
             ELSE /\ result' = NewResult(check_source(tree))
                  /\ pc' = AfterCount(dry_run)
    /\ pre' = Snapshot
    /\ njobs' = njobs + 1
    /\ UNCHANGED <<clock, dest, logFiles, mhlFiles, mirror, db, ledger, vresult, console, mnt>>

\* Lines 180-232: phase 1, hash the source into the ledger.
Phase1 ==
    /\ pc = "phase1"
    /\ \E walk \in Perms(DOMAIN job.tree) :
          ledger' = HashSource(job.tree, walk, 1, [hashes |-> <<>>, excluded |-> <<>>]).hashes
    /\ console' = Append(console, "Phase 1")
    /\ pc' = "phase2"
    /\ UNCHANGED <<clock, dest, logFiles, mhlFiles, mirror, db, job, result, vresult, pre, njobs, mnt>>

\* What the copy tool may leave at one destination name: nothing new, or a copy of
\* a source file of that name, possibly with damaged bytes or unreadable.
\* The copy carries the mtime of the source file (rsync -a) or, where the volume
\* or the options do not keep times, one of stamps.
CopyChoices(tree, ltfs, name, datas, stamps) ==
    {Skip} \cup UNION {
        IF ~tree[p].readable THEN {}
        ELSE IF should_exclude(p, Excludes) THEN {tree[p]}
        ELSE {[data |-> c, readable |-> TRUE, mtime |-> m] : c \in datas, m \in {tree[p].mtime} \cup stamps}
             \cup {[data |-> tree[p].data, readable |-> FALSE, mtime |-> tree[p].mtime]}
        : p \in {q \in DOMAIN tree : DestName(ltfs, q) = name}}

CopyImage(d, source_name, ch) ==
    LET written == {<<source_name, n>> : n \in {m \in DOMAIN ch : ch[m] # Skip}}
        keys == DOMAIN d \cup written \cup {<<source_name, <<>>>>}
    IN  [k \in keys |-> IF k \in written THEN ch[k[2]]
                        ELSE IF k \in DOMAIN d THEN d[k] ELSE Dir]

\* total_seconds() of a phase: zero when the clock reads the same at both ends.
Durations == {0, 1}

\* Lines 234-338: phase 2, the log file and the one rsync run.  The log lines
\* divide by phase1_duration (297) and phase2_duration (338) unguarded.
Phase2(datas, stamps) ==
    /\ pc = "phase2"
    /\ console' = Append(console, "Phase 2")
    /\ logFiles' = logFiles \cup {<<job.tape_name, job.source_name, job.timestamp>>}
    /\ \E rsync_found \in BOOLEAN, phase1_duration \in Durations, phase2_duration \in Durations :
          IF phase1_duration = 0
          THEN /\ pc' = "raised"
               /\ result' = Raise(result, "ZeroDivisionError", "phase1_duration")
               /\ dest' = dest
          ELSE IF ~rsync_found
          THEN /\ pc' = "raised"
               /\ result' = Raise(result, "TransferError", "rsync not found in PATH")
               /\ dest' = dest
          ELSE /\ \E ch \in [{DestName(job.ltfs, p) : p \in DOMAIN job.tree} -> [data : datas, readable : BOOLEAN, mtime : {Mtime} \cup stamps] \cup {Skip}] :
                    /\ \A n \in DOMAIN ch : ch[n] \in CopyChoices(job.tree, job.ltfs, n, datas, stamps)
                    /\ dest' = CopyImage(dest, job.source_name, ch)
               /\ LET copied == [result EXCEPT !.log_path = <<job.tape_name, job.source_name, job.timestamp>>]
                  IN  IF phase2_duration = 0
                      THEN /\ pc' = "raised"
                           /\ result' = Raise(copied, "ZeroDivisionError", "phase2_duration")
                      ELSE /\ pc' = AfterCopy(job.verify)
                           /\ result' = copied
    /\ UNCHANGED <<clock, mhlFiles, mirror, db, job, ledger, vresult, pre, njobs, mnt>>

\* Lines 340-451: phase 3, verify the destination against the ledger.  The log
\* line 445 divides by phase3_duration unguarded.
Phase3 ==
    /\ pc = "phase3"
    /\ console' = Append(console, "Phase 3")
    /\ \E walk \in Perms(DestFiles(dest, job.source_name)), phase3_duration \in Durations :
          LET walked == VerifyWalk(dest, job.source_name, ledger, walk, 1, result)
              marked == MarkMissing(ledger, MissingKeys(dest, job.source_name, ledger), 1, walked)
              verified == [marked EXCEPT !.files_transferred = marked.files_verified]
          IN  IF phase3_duration = 0
              THEN /\ pc' = "raised"
                   /\ result' = Raise(verified, "ZeroDivisionError", "phase3_duration")
              ELSE /\ pc' = "phase4"
                   /\ result' = verified
    /\ UNCHANGED <<clock, dest, logFiles, mhlFiles, mirror, db, job, ledger, vresult, pre, njobs, mnt>>

\* Where control goes after mhl.save, were a failed write swallowed.
AfterSaveIgnoringFailure(saved) == "phase5a"

AfterSave(saved) == IF saved THEN "phase5a" ELSE "raised"

\* Lines 455-490: phase 4, build the Manifest from the ledger and save it.
Phase4 ==
    /\ pc = "phase4"
    /\ console' = Append(console, "Phase 4")
    /\ \E saved \in BOOLEAN :
          LET mhl_path == MhlName(job.tape_name, job.source_name, job.timestamp)
          IN  /\ pc' = AfterSave(saved)
              /\ IF saved
                 THEN /\ mhlFiles' = Put(mhlFiles, mhl_path, MhlToXml(MhlFromLedger(job.tape_name, ledger, dest, job.source_name, <<clock>>)))
                      /\ result' = [result EXCEPT !.mhl_path = mhl_path]
                 ELSE /\ mhlFiles' = mhlFiles
                      /\ result' = IF pc' = "raised" THEN Raise(result, "OSError", "Manifest write failed") ELSE result
    /\ UNCHANGED <<clock, dest, logFiles, mirror, db, job, ledger, vresult, pre, njobs, mnt>>

\* cli.py recover, lines 508-526: size and mtime from the source file, else from
\* the tape file, else the row is left out.
RECURSIVE RecoverBatch(_, _, _, _, _)
RecoverBatch(file_hashes, tree, d, source_name, i) ==
    IF i > Len(file_hashes) THEN <<>>
    ELSE LET rel_path == file_hashes[i].path
             rest == RecoverBatch(file_hashes, tree, d, source_name, i + 1)
         IN  IF rel_path \in DOMAIN tree
             THEN <<[path |-> rel_path, size |-> st_size(tree[rel_path].data),
                     mtime |-> tree[rel_path].mtime,
                     xxhash |-> file_hashes[i].hash]>> \o rest
             ELSE IF rel_path \in DestFiles(d, source_name)
             THEN <<[path |-> rel_path, size |-> st_size(d[<<source_name, rel_path>>].data),
                     mtime |-> d[<<source_name, rel_path>>].mtime,
                     xxhash |-> file_hashes[i].hash]>> \o rest
             ELSE rest

\* The paths phase 5a touches: the ledger keys (transfer, recover) or every file
\* of the tape directory under its own name (finalize).
MirrorKeys ==
    IF job.kind = "finalize" THEN DestFiles(dest, job.source_name) ELSE DictKeys(ledger)

\* The batch phase 5b hands to add_files.
JobBatch ==
    IF job.kind = "recover"
    THEN RecoverBatch(ledger, job.tree, dest, job.source_name, 1)
    ELSE DbBatch(ledger, dest, job.source_name)

\* Lines 492-517: phase 5a, one zero-byte placeholder per ledger path.  A failing
\* mkdir/touch is not caught: the job ends with the placeholders made so far.
Phase5a ==
    /\ pc = "phase5a"
    /\ console' = Append(console, "Phase 5")
    /\ \E touched \in SUBSET MirrorKeys :
          /\ mirror' = mirror \cup Placeholders(job.tape_name, job.source_name, touched)
          /\ IF touched = MirrorKeys
             THEN /\ pc' = "phase5b_tape"
                  /\ result' = [result EXCEPT !.catalog_path = <<job.tape_name, job.source_name>>]
             ELSE /\ pc' = "raised"
                  /\ result' = Raise(result, "OSError", "Placeholder not created")
    /\ UNCHANGED <<clock, dest, logFiles, mhlFiles, db, job, ledger, vresult, pre, njobs, mnt>>

\* Line 541: the warning that replaces any exception of the database update.
DbWarning == "Warning: Could not update catalog database"

\* Lines 519-524: CatalogDB(config) and db.add_tape, the first transaction of the
\* try block; any exception ends the block with a warning.
Phase5bTape ==
    /\ pc = "phase5b_tape"
    /\ \E ok \in BOOLEAN :
          IF ok
          THEN /\ db' = add_tape(db, job.tape_name)
               /\ console' = console
               /\ pc' = "phase5b_files"
          ELSE /\ db' = db
               /\ console' = Append(console, DbWarning)
               /\ pc' = "done"
    /\ UNCHANGED <<clock, dest, logFiles, mhlFiles, mirror, job, ledger, result, vresult, pre, njobs, mnt>>

\* Lines 526-583: db.add_files, the second transaction, the line "Added
\* {len(db_files)} files to catalog database", then the summary and return.
Phase5bFiles ==
    /\ pc = "phase5b_files"
    /\ \E ok \in BOOLEAN, failing \in SUBSET (1..Len(JobBatch)) :
          /\ ok \/ failing = {}
          /\ db' = IF ok THEN add_files(db, job.tape_name, JobBatch, failing, <<clock>>) ELSE db
          /\ console' = IF ok THEN console ELSE Append(console, DbWarning)
          /\ pre' = [pre EXCEPT !.skipped = failing,
                                !.printed_added = IF ok THEN <<Len(JobBatch)>> ELSE <<>>]
    /\ pc' = "done"
    /\ UNCHANGED <<clock, dest, logFiles, mhlFiles, mirror, job, ledger, result, vresult, njobs, mnt>>

Running ==
    pc \in {"phase1", "phase2", "phase3", "phase4", "recover4", "finalize4",
            "phase5a", "phase5b_tape", "phase5b_files"}

\* The process is killed (signal, crash, power loss) between two steps.
Abort ==
    /\ Running
    /\ pc' = "aborted"
    /\ UNCHANGED <<clock, dest, logFiles, mhlFiles, mirror, db, job, ledger, result, console, vresult, pre, njobs, mnt>>

(***************************************************************************)
(* cli.py: the recover and finalize commands.  Both hash, save a Manifest  *)
(* named with the time of the save, and then run the steps of phase 5.     *)
(***************************************************************************)
\* The cause of the OSError that path.stat() raises in the counting loops of
\* recover (line 397) and finalize (line 597), which no try encloses.
StatFailed == "File not stat'ed"

\* recover, lines 364-401: the names, the checks, the count of the source files.
RecoverStart(names, tapes, trees) ==
    /\ pc = "idle"
    /\ njobs < MaxJobs
    /\ \E source_name \in names, tape_arg \in tapes, tree \in trees,
          source_exists \in BOOLEAN, is_mounted \in BOOLEAN, stat_ok \in BOOLEAN :
          /\ source_exists \/ tree = EmptyMap
          /\ stat_ok \/ \E p \in DOMAIN tree : ~should_exclude(p, Excludes)
          /\ job' = [kind |-> "recover", source_name |-> source_name, ltfs |-> TRUE,
                     tape_name |-> TapeNameOf(tape_arg, source_name), tree |-> tree,
                     dry_run |-> FALSE, verify |-> FALSE, timestamp |-> clock]
          /\ IF ~source_exists
             THEN /\ pc' = "raised"
                  /\ result' = Raise(NewResult(NothingCounted), "SystemExit", "Source not found")
             ELSE IF ~is_mounted
             THEN /\ pc' = "raised"
                  /\ result' = Raise(NewResult(NothingCounted), "SystemExit", "No tape mounted")
             ELSE IF ~DestDirExists(dest, source_name)
             THEN /\ pc' = "raised"
                  /\ result' = Raise(NewResult(NothingCounted), "SystemExit", "Directory not found on tape")
             ELSE IF ~stat_ok
             THEN /\ pc' = "raised"
                  /\ result' = Raise(NewResult(NothingCounted), "OSError", StatFailed)
             ELSE /\ pc' = "recover4"
                  /\ result' = NewResult(NothingCounted)
    /\ pre' = Snapshot
    /\ njobs' = njobs + 1
    /\ UNCHANGED <<clock, dest, logFiles, mhlFiles, mirror, db, ledger, vresult, console, mnt>>

\* recover, lines 432-460: one Manifest record per readable source file, and the
\* dict file_hashes keyed by the normalized path.
RECURSIVE RecoverHash(_, _, _, _, _, _)
RecoverHash(tree, d, source_name, walk, i, acc) ==
    IF i > Len(walk) THEN acc
    ELSE LET rel_path == normalize_path(walk[i])
             file == tree[walk[i]]
             mtime == IF <<source_name, rel_path>> \in DOMAIN d
                      THEN TapeMtime(d, source_name, rel_path)
                      ELSE file.mtime
         IN  IF ~file.readable
             THEN RecoverHash(tree, d, source_name, walk, i + 1, acc)
             ELSE RecoverHash(tree, d, source_name, walk, i + 1,
                     [entries |-> Append(acc.entries,
                                     [file |-> rel_path, size |-> st_size(file.data),
                                      xxhash64be |-> hash_file(file.data),
                                      last_modification_date |-> mtime]),
                      file_hashes |-> DictSet(acc.file_hashes, rel_path,
                                              hash_file(file.data), st_size(file.data))])

\* recover, lines 403-466: phase 4, hash the source and save the Manifest.
RecoverPhase4 ==
    /\ pc = "recover4"
    /\ console' = Append(console, "Phase 4")
    /\ \E walk \in Perms({p \in DOMAIN job.tree : ~should_exclude(p, Excludes)}), saved \in BOOLEAN :
          LET hashed == RecoverHash(job.tree, dest, job.source_name, walk, 1, [entries |-> <<>>, file_hashes |-> <<>>])
              mhl_path == MhlName(job.tape_name, job.source_name, clock)
          IN  /\ ledger' = hashed.file_hashes
              /\ pc' = AfterSave(saved)
              /\ IF saved
                 THEN /\ mhlFiles' = Put(mhlFiles, mhl_path,
                                         MhlToXml([tape_info |-> job.tape_name, finish_date |-> <<clock>>,
                                                   hashes |-> hashed.entries]))
                      /\ result' = [result EXCEPT !.mhl_path = mhl_path]
                 ELSE /\ mhlFiles' = mhlFiles
                      /\ result' = IF pc' = "raised" THEN Raise(result, "OSError", "Manifest write failed") ELSE result
    /\ UNCHANGED <<clock, dest, logFiles, mirror, db, job, vresult, pre, njobs, mnt>>

\* finalize, lines 579-597: the names, the checks, the list of the tape files.
FinalizeStart(names, tapes) ==
    /\ pc = "idle"
    /\ njobs < MaxJobs
    /\ \E source_name \in names, tape_arg \in tapes, is_mounted \in BOOLEAN, stat_ok \in BOOLEAN :
          /\ stat_ok \/ DestFiles(dest, source_name) # {}
          /\ job' = [kind |-> "finalize", source_name |-> source_name, ltfs |-> TRUE,
                     tape_name |-> TapeNameOf(tape_arg, source_name), tree |-> EmptyMap,
                     dry_run |-> FALSE, verify |-> FALSE, timestamp |-> clock]
          /\ IF ~is_mounted
             THEN /\ pc' = "raised"
                  /\ result' = Raise(NewResult(NothingCounted), "SystemExit", "No tape mounted")
             ELSE IF ~DestDirExists(dest, source_name)
             THEN /\ pc' = "raised"
                  /\ result' = Raise(NewResult(NothingCounted), "SystemExit", "Directory not found on tape")
             ELSE IF ~stat_ok
             THEN /\ pc' = "raised"
                  /\ result' = Raise(NewResult(NothingCounted), "OSError", StatFailed)
             ELSE /\ pc' = "finalize4"
                  /\ result' = NewResult(NothingCounted)
    /\ pre' = Snapshot
    /\ njobs' = njobs + 1
    /\ UNCHANGED <<clock, dest, logFiles, mhlFiles, mirror, db, ledger, vresult, console, mnt>>

\* finalize, lines 629-649: one record per readable tape file, under the name the
\* walk yields.
RECURSIVE FinalizeHash(_, _, _, _, _)
FinalizeHash(d, source_name, walk, i, acc) ==
    IF i > Len(walk) THEN acc
    ELSE LET file == d[<<source_name, walk[i]>>]
         IN  IF ~file.readable
             THEN FinalizeHash(d, source_name, walk, i + 1, acc)
             ELSE FinalizeHash(d, source_name, walk, i + 1,
                     Append(acc, [path |-> walk[i], hash |-> hash_file(file.data),
                                  size |-> st_size(file.data)]))

\* finalize, lines 603-659: phase 4, hash the tape files and save the Manifest.
FinalizePhase4 ==
    /\ pc = "finalize4"
    /\ console' = Append(console, "Phase 4")
    /\ \E walk \in Perms(DestFiles(dest, job.source_name)), saved \in BOOLEAN :
          LET hashed == FinalizeHash(dest, job.source_name, walk, 1, <<>>)
              mhl_path == MhlName(job.tape_name, job.source_name, clock)
          IN  /\ ledger' = hashed
              /\ pc' = AfterSave(saved)
              /\ IF saved
                 THEN /\ mhlFiles' = Put(mhlFiles, mhl_path, MhlToXml(MhlFromLedger(job.tape_name, hashed, dest, job.source_name, <<clock>>)))
                      /\ result' = [result EXCEPT !.mhl_path = mhl_path]
                 ELSE /\ mhlFiles' = mhlFiles
                      /\ result' = IF pc' = "raised" THEN Raise(result, "OSError", "Manifest write failed") ELSE result
    /\ UNCHANGED <<clock, dest, logFiles, mirror, db, job, vresult, pre, njobs, mnt>>

\* One second passes on the wall clock that names Manifests and logs.
Tick ==
    /\ clock < MaxClock
    /\ clock' = clock + 1
    /\ UNCHANGED <<dest, logFiles, mhlFiles, mirror, db, job, pc, ledger, result, vresult, console, pre, njobs, mnt>>

\* The command has ended; the archive stays as the job left it.
JobEnd ==
    /\ pc \in {"done", "raised", "aborted", "verified"}
    /\ pc' = "idle"
    /\ job' = NULL
    /\ ledger' = <<>>
    /\ result' = NULL
    /\ vresult' = NULL
    /\ console' = <<>>
    /\ UNCHANGED <<clock, dest, logFiles, mhlFiles, mirror, db, pre, njobs, mnt>>

(***************************************************************************)
(* verify.py: verify(mhl_path, base_path), here run on the Manifest the    *)
(* finished transfer wrote, against the job's destination directory.       *)
(***************************************************************************)
NewVerifyResult(mhl) ==
    [total_files |-> Len(mhl.hashes), verified |-> 0, failed |-> 0, missing |-> 0,
     failed_files |-> <<>>, missing_files |-> <<>>]

\* verify's loop, were a file that cannot be read passed over without an outcome.
RECURSIVE VerifyEntriesPassingReadErrors(_, _, _, _, _)
VerifyEntriesPassingReadErrors(d, base, hashes, i, res) ==
    IF i > Len(hashes) THEN res
    ELSE LET entry == hashes[i]
             file_path == <<base, entry.file>>
         IN  IF file_path \notin DOMAIN d
             THEN VerifyEntriesPassingReadErrors(d, base, hashes, i + 1,
                     [res EXCEPT !.missing = @ + 1, !.missing_files = Append(@, entry.file)])
             ELSE IF d[file_path] = Dir \/ ~d[file_path].readable
             THEN VerifyEntriesPassingReadErrors(d, base, hashes, i + 1, res)
             ELSE IF hash_file(d[file_path].data) = entry.xxhash64be
             THEN VerifyEntriesPassingReadErrors(d, base, hashes, i + 1, [res EXCEPT !.verified = @ + 1])
             ELSE VerifyEntriesPassingReadErrors(d, base, hashes, i + 1,
                     [res EXCEPT !.failed = @ + 1,
                                 !.failed_files = Append(@, <<entry.file, "expected/got">>)])

RECURSIVE VerifyEntries(_, _, _, _, _)
VerifyEntries(d, base, hashes, i, res) ==
    IF i > Len(hashes) THEN res
    ELSE LET entry == hashes[i]
             file_path == <<base, entry.file>>
         IN  IF file_path \notin DOMAIN d
             THEN VerifyEntries(d, base, hashes, i + 1,
                     [res EXCEPT !.missing = @ + 1, !.missing_files = Append(@, entry.file)])
             ELSE IF d[file_path] = Dir \/ ~d[file_path].readable
             THEN VerifyEntries(d, base, hashes, i + 1,
                     [res EXCEPT !.failed = @ + 1,
                                 !.failed_files = Append(@, <<entry.file, "read error">>)])
             ELSE IF hash_file(d[file_path].data) = entry.xxhash64be
             THEN VerifyEntries(d, base, hashes, i + 1, [res EXCEPT !.verified = @ + 1])
             ELSE VerifyEntries(d, base, hashes, i + 1,
                     [res EXCEPT !.failed = @ + 1,
                                 !.failed_files = Append(@, <<entry.file, "expected/got">>)])

verify(doc, d, base) ==
    LET mhl == MhlLoad(doc)
    IN  VerifyEntries(d, base, mhl.hashes, 1, NewVerifyResult(mhl))

VerifyRun ==
    /\ pc = "done"
    /\ job.kind = "transfer"
    /\ result.mhl_path \in DOMAIN mhlFiles
    /\ DestDirExists(dest, job.source_name)
    /\ vresult' = verify(mhlFiles[result.mhl_path], dest, job.source_name)
    /\ pc' = "verified"
    /\ UNCHANGED <<clock, dest, logFiles, mhlFiles, mirror, db, job, ledger, result, console, pre, njobs, mnt>>

(***************************************************************************)
(* One transfer job from a fresh archive, over every small source tree.    *)
(***************************************************************************)
SrcPaths == {<<"a">>, <<"e", "^">>, <<"E">>, <<"b", ".", "t">>}

Data == {<<0>>, <<1>>}

SrcFiles ==
    [data : Data, readable : {TRUE}, mtime : {Mtime}]
        \cup {[data |-> <<0>>, readable |-> FALSE, mtime |-> Mtime]}

SrcTrees == Trees(SrcPaths, SrcFiles, MaxFiles)

StartOne == TransferStart({"s1"}, {"T1"}, SrcTrees, BOOLEAN)

CopyOne == Phase2(Data, {})

Next ==
    \/ StartOne
    \/ Phase1
    \/ CopyOne
    \/ Phase3
    \/ Phase4
    \/ Phase5a
    \/ Phase5bTape
    \/ Phase5bFiles
    \/ VerifyRun
    \/ Abort

Spec == InitState /\ [][Next]_vars

(***************************************************************************)
(* The catalog on its own: any sequence of committed catalog operations.   *)
(***************************************************************************)
CatTapes == {"T1", "T2"}

CatPaths == {<<"a">>, <<"e", "^">>, <<"E">>}

CatData == {<<0>>, <<1>>, <<0, 0>>}

CatEntries ==
    {[path |-> p, size |-> st_size(c), mtime |-> <<>>, xxhash |-> hash_file(c)] :
        p \in CatPaths, c \in CatData}

CatBatches == {<<>>} \cup {<<e>> : e \in CatEntries} \cup {<<e, f>> : e \in CatEntries, f \in CatEntries}

CatManifests ==
    {[tape_info |-> t, finish_date |-> <<0>>, hashes |-> [i \in 1..Len(b) |->
        [file |-> b[i].path, size |-> b[i].size, xxhash64be |-> b[i].xxhash,
         last_modification_date |-> b[i].mtime]]] :
        t \in {NULL, "T2"}, b \in {c \in CatBatches : Len(c) <= 1}}

CatAddTape ==
    \E name \in CatTapes :
        /\ db' = add_tape(db, name)
        /\ UNCHANGED NotDB

CatAddFiles ==
    \E name \in CatTapes, batch \in CatBatches :
        \E failing \in SUBSET (1..Len(batch)) :
            /\ db' = add_files(db, name, batch, failing, <<0>>)
            /\ db'.seq <= MaxId
            /\ UNCHANGED NotDB

CatDeleteTape ==
    \E name \in CatTapes :
        /\ db' = delete_tape(db, name)
        /\ UNCHANGED NotDB

\* import_from_mhl: MHL.load, then add_tape and add_files, each its own transaction;
\* nothing else writes between them in this specification.
CatImportFromMhl ==
    \E doc \in CatManifests, fname \in {<<"T1", "s1", 0>>}, arg \in {NULL, "T1"} :
        /\ db' = import_from_mhl(db, doc, fname, arg, <<0>>)
        /\ db'.seq <= MaxId
        /\ UNCHANGED NotDB

CatNext == CatAddTape \/ CatAddFiles \/ CatDeleteTape \/ CatImportFromMhl

SpecCatalog == InitState /\ [][CatNext]_vars

\* C1: in every committed state of the catalog, every volume record's file_count is
\* the number of catalog entries of that volume and its total_bytes is the sum of
\* their sizes.
C1_AggregatesMatchEntries ==
    \A v \in DOMAIN db.tapes :
        /\ db.tapes[v].file_count = Cardinality(FilesOfTape(db.files, v))
        /\ db.tapes[v].total_bytes = SumOver(FilesOfTape(db.files, v), SizeOf(db.files))

\* Two volumes hold entries at once, one of them two entries of different sizes.
C1_Witness ==
    /\ DOMAIN db.tapes = CatTapes
    /\ db.tapes["T1"].file_count = 2
    /\ db.tapes["T1"].total_bytes = 3
    /\ db.tapes["T2"].file_count = 1

(***************************************************************************)
(* A sequence of transfer, recover and finalize commands on one archive,   *)
(* over one-file sources whose content may change between the commands.    *)
(***************************************************************************)
JobNames == {"s1"}

JobTapes == {"T1"}

JobData == {<<0>>, <<1>>}

JobPaths == {<<"a">>}

JobTrees == Trees(JobPaths, [data : JobData, readable : {TRUE}, mtime : {Mtime}], 1)

JobsTransfer == TransferStart(JobNames, JobTapes, JobTrees, {TRUE})

\* A copy that does not keep the source's time gets the time of the copy.
JobStamps == {<<2>>}

JobsCopy == Phase2(JobData, JobStamps)

JobsRecover == RecoverStart(JobNames, JobTapes, JobTrees)

JobsFinalize == FinalizeStart(JobNames, JobTapes)

JobsNext ==
    \/ JobsTransfer
    \/ Phase1
    \/ JobsCopy
    \/ Phase3
    \/ Phase4
    \/ JobsRecover
    \/ RecoverPhase4
    \/ JobsFinalize
    \/ FinalizePhase4
    \/ Phase5a
    \/ Phase5bTape
    \/ Phase5bFiles
    \/ Tick
    \/ JobEnd
    \/ Abort

SpecJobs == InitState /\ [][JobsNext]_vars

(***************************************************************************)
(* Properties of phase 3 and of verify().                                  *)
(***************************************************************************)
Phase3Ran == pc # "idle" /\ job.kind = "transfer" /\ "Phase 3" \in Range(console)

\* The source files whose digest the ledger records under key k.
LedgerSources(k) ==
    {p \in DOMAIN job.tree :
        /\ LedgerKey(p) = k
        /\ ~should_exclude(p, Excludes)
        /\ job.tree[p].readable
        /\ k \in DictKeys(ledger)
        /\ hash_file(job.tree[p].data) = DictGet(ledger, k).hash}

\* The destination files whose canonical path is ledger key k.
DestOf(k) == {n \in DestFiles(dest, job.source_name) : normalize_path(n) = k}

OnDest(k) == DestOf(k) # {}

\* The destination holds ledger key k once, readable, with the bytes of its source file.
PresentIdentical(k) ==
    /\ Cardinality(DestOf(k)) = 1
    /\ \A n \in DestOf(k) :
          /\ dest[<<job.source_name, n>>].readable
          /\ \E p \in LedgerSources(k) : job.tree[p].data = dest[<<job.source_name, n>>].data

\* The destination holds ledger key k once, readable, with other bytes than its source file.
PresentModified(k) ==
    /\ Cardinality(DestOf(k)) = 1
    /\ \A n \in DestOf(k) :
          /\ dest[<<job.source_name, n>>].readable
          /\ \A p \in LedgerSources(k) : job.tree[p].data # dest[<<job.source_name, n>>].data

\* The destination subtree holds exactly the files of the source tree, same contents.
Identical ==
    /\ DestFiles(dest, job.source_name) = {DestName(job.ltfs, p) : p \in DOMAIN job.tree}
    /\ \A p \in DOMAIN job.tree :
          /\ dest[<<job.source_name, DestName(job.ltfs, p)>>].readable
          /\ dest[<<job.source_name, DestName(job.ltfs, p)>>].data = job.tree[p].data

\* C2: when the destination subtree holds exactly the files of the source tree with
\* the same contents, phase 3 ends with files_failed = 0 and files_verified equal to
\* the job's total (files_total, or the number of ledgered files when some of the
\* counted files are excluded), and verify() against the job's Manifest ends with
\* verified = total_files, failed = 0 and missing = 0.
C2_IdenticalAllVerified ==
    /\ (Phase3Ran /\ Identical) =>
          /\ result.files_verified \in {result.files_total, Len(ledger)}
          /\ result.files_failed = 0
    /\ (pc = "verified" /\ Identical) =>
          /\ vresult.verified = vresult.total_files
          /\ vresult.failed = 0
          /\ vresult.missing = 0

\* C3: if exactly one ledgered file is absent from the destination and every other
\* ledgered file is present with identical content, phase 3 records exactly one
\* failure, it is "missing" and names that path, and verified = ledger entries - 1.
C3_OneMissing ==
    \A k \in DictKeys(ledger) :
        (/\ Phase3Ran
         /\ ~OnDest(k)
         /\ \A o \in DictKeys(ledger) \ {k} : PresentIdentical(o))
        => /\ result.files_failed = 1
           /\ result.failed_files = << <<k, "missing">> >>
           /\ result.files_verified = Len(ledger) - 1

\* Phase 3 has run with one of two ledgered files absent from the destination.
C3_Witness ==
    /\ Phase3Ran
    /\ Len(ledger) = 2
    /\ \E k \in DictKeys(ledger) :
          /\ ~OnDest(k)
          /\ \A o \in DictKeys(ledger) \ {k} : PresentIdentical(o)
          /\ result.failed_files = << <<k, "missing">> >>

Ended == pc \in {"aborted", "raised"}

Ran(phase) == phase \in Range(console)

IsBanner(line) == line \in {"Phase 1", "Phase 2", "Phase 3", "Phase 4", "Phase 5"}

Banners == SelectSeq(console, IsBanner)

CatalogAsBefore == db = pre.db /\ mirror = pre.mirror

\* C5 as stated: a transfer job that is aborted or raises leaves no Manifest of its
\* own and the catalog (database and mirror tree) as it was before the job started.
C5_AsStated ==
    (Ended /\ job.kind = "transfer") => (mhlFiles = pre.mhlFiles /\ CatalogAsBefore)

\* C5: a transfer job that is aborted or raises before phase 4 begins leaves no
\* Manifest of its own and the catalog (database and mirror tree) as it was before
\* the job started; one that ends before phase 5 begins leaves the catalog as it was.
C5_AbortBeforeManifest ==
    (Ended /\ job.kind = "transfer") =>
        /\ ~Ran("Phase 4") => (mhlFiles = pre.mhlFiles /\ CatalogAsBefore)
        /\ ~Ran("Phase 5") => CatalogAsBefore

\* A job killed after phase 3, with files already copied to the destination.
C5_Witness ==
    /\ pc = "aborted"
    /\ job.kind = "transfer"
    /\ Ran("Phase 3")
    /\ ~Ran("Phase 4")
    /\ DestFiles(dest, job.source_name) # {}

\* C8 as stated: every transfer job that returns a result has run phases 1 to 5 once
\* each, in that order.
C8_AsStated ==
    (pc = "done" /\ job.kind = "transfer") =>
        Banners = <<"Phase 1", "Phase 2", "Phase 3", "Phase 4", "Phase 5">>

\* C8: every transfer job with dry_run unset that returns a result has run phases 1, 2,
\* 3 (if verify is set), 4 and 5 once each, in that order; a dry run returns with no
\* phase run.
C8_PhasesInOrder ==
    (pc = "done" /\ job.kind = "transfer") =>
        Banners = IF job.dry_run THEN <<>>
                  ELSE IF job.verify
                  THEN <<"Phase 1", "Phase 2", "Phase 3", "Phase 4", "Phase 5">>
                  ELSE <<"Phase 1", "Phase 2", "Phase 4", "Phase 5">>

\* A job with verify set has returned after all five phases, with a catalog update.
C8_Witness ==
    /\ pc = "done"
    /\ job.kind = "transfer"
    /\ job.verify
    /\ ~job.dry_run
    /\ Len(Banners) = 5
    /\ job.tape_name \in DOMAIN db.tapes

(***************************************************************************)
(* Properties of a job whose verification found failures.                  *)
(***************************************************************************)
Listed(k, reason) == <<k, reason>> \in Range(result.failed_files)

\* Every ledger key the destination fails on is listed with the reason.
FailuresListed ==
    /\ result.files_failed = Len(result.failed_files)
    /\ \A k \in DictKeys(ledger) :
          /\ DestOf(k) = {} => Listed(k, "missing")
          /\ \A n \in DestOf(k) :
                LET file == dest[<<job.source_name, n>>]
                IN  /\ ~file.readable => Listed(k, "read error")
                    /\ (file.readable /\ hash_file(file.data) # DictGet(ledger, k).hash)
                          => Listed(k, "hash mismatch")

\* The saved Manifest has one record per ledger entry, with its digest and size.
ManifestHoldsLedger ==
    /\ result.mhl_path \in DOMAIN mhlFiles
    /\ LET mhl == MhlLoad(mhlFiles[result.mhl_path])
       IN  /\ Len(mhl.hashes) = Len(ledger)
           /\ \A i \in 1..Len(ledger) :
                 /\ mhl.hashes[i].file = ledger[i].path
                 /\ mhl.hashes[i].xxhash64be = ledger[i].hash
                 /\ mhl.hashes[i].size = ledger[i].size

\* The database holds ledger entry i of the job.
InDatabase(i) ==
    /\ <<job.tape_name, ledger[i].path>> \in DOMAIN db.files
    /\ db.files[<<job.tape_name, ledger[i].path>>].xxhash = ledger[i].hash
    /\ db.files[<<job.tape_name, ledger[i].path>>].size = ledger[i].size

\* The mirror tree holds every ledger entry and so does the database, unless its
\* update was given up with a warning or the database rejected the row.
CatalogHoldsLedger ==
    /\ Placeholders(job.tape_name, job.source_name, DictKeys(ledger)) \subseteq mirror
    /\ ~Ran(DbWarning) => \A i \in (1..Len(ledger)) \ pre.skipped : InDatabase(i)

\* C9: whatever mismatch, missing and read-error outcomes phase 3 records, it lists
\* every failing path with its reason and goes on to phase 4; a transfer that returns
\* has run phases 4 and 5, and its Manifest, the mirror tree and (unless the database
\* update ended in a warning) the database hold every ledger entry, failed ones too.
C9_FailuresDoNotStop ==
    /\ (Phase3Ran /\ pc # "phase3") => FailuresListed
    /\ (Phase3Ran /\ pc \notin {"phase3", "raised", "aborted"}) => Ran("Phase 4") \/ pc = "phase4"
    /\ (pc \in {"done", "verified"} /\ job.kind = "transfer" /\ ~job.dry_run) =>
          /\ Ran("Phase 4")
          /\ Ran("Phase 5")
          /\ ManifestHoldsLedger
          /\ CatalogHoldsLedger

\* C6 as stated: a reader of the catalog database sees either the state before the
\* job's phase 5 or the state after it: volume record, all of the job's entries and
\* the aggregates together.
C6_AsStated ==
    (pc \in {"phase5a", "phase5b_tape", "phase5b_files", "done"} /\ job.kind = "transfer"
        /\ ~job.dry_run) =>
        \/ db = pre.db
        \/ /\ job.tape_name \in DOMAIN db.tapes
           /\ \A i \in 1..Len(ledger) : InDatabase(i)

\* C6: the job's entries and the recomputed aggregates are committed by one
\* transaction (add_files): a reader sees the entries table either as it was before
\* the job or with every row of the job that the database accepted, and in both
\* cases the volume's aggregates agree with the entries it can see.  The volume
\* record itself is committed earlier, by add_tape, and may be seen with no entry.
C6_EntriesInOneTransaction ==
    (pc \in {"phase5a", "phase5b_tape", "phase5b_files", "done"} /\ job.kind = "transfer"
        /\ ~job.dry_run) =>
        /\ \/ db.files = pre.db.files
           \/ \A i \in (1..Len(ledger)) \ pre.skipped : InDatabase(i)
        /\ \A v \in DOMAIN db.tapes :
              db.tapes[v].file_count = Cardinality(FilesOfTape(db.files, v))
        /\ db.files # pre.db.files => job.tape_name \in DOMAIN db.tapes

\* A reader sees the job's volume record with file_count 0 while two entries wait
\* for the second transaction.
C6_Witness ==
    /\ pc = "phase5b_files"
    /\ Len(ledger) = 2
    /\ job.tape_name \in DOMAIN db.tapes
    /\ db.tapes[job.tape_name].file_count = 0
    /\ db.files = pre.db.files

\* A job has returned with one file missing and one mismatching, both listed, and
\* both in the Manifest and in the database.
C9_Witness ==
    /\ pc = "done"
    /\ job.kind = "transfer"
    /\ result.files_failed = 2
    /\ \E k1, k2 \in DictKeys(ledger) : Listed(k1, "missing") /\ Listed(k2, "hash mismatch")
    /\ ManifestHoldsLedger
    /\ ~Ran(DbWarning)
    /\ Cardinality(DOMAIN db.files) = 2

(***************************************************************************)
(* Properties of the Manifest file and of its place before the catalog.    *)
(***************************************************************************)
\* C7: no run changes a Manifest that an earlier run has written: every Manifest
\* file is still there after every step, with the content it had.
C7_ManifestsNeverOverwritten ==
    [][\A f \in DOMAIN mhlFiles : f \in DOMAIN mhlFiles' /\ mhlFiles'[f] = mhlFiles[f]]_vars

InJob == pc # "idle"

ManifestSaved == result.mhl_path # <<>> /\ result.mhl_path \in DOMAIN mhlFiles

StartFailures ==
    {"Source not found", "No tape mounted", "Directory not found on tape",
     "rsync not found in PATH", "Manifest write failed"}

\* C10: in transfer, recover and finalize the catalog (mirror tree and database)
\* differs from what it was when the job started only after the job has saved its
\* Manifest; a job that ends because the source is absent, no volume is mounted,
\* the tape directory or the copy tool is missing, or the Manifest write fails,
\* leaves the database and the mirror tree as they were.
C10_ManifestBeforeCatalog ==
    InJob =>
        /\ ~CatalogAsBefore => ManifestSaved
        /\ (Ran("Phase 5") \/ pc \in {"phase5a", "phase5b_tape", "phase5b_files"}) => ManifestSaved
        /\ (pc = "raised" /\ result.cause \in StartFailures) => CatalogAsBefore

\* A recover run after an earlier job has filled the catalog ends on a failed
\* Manifest write.
C10_Witness ==
    /\ pc = "raised"
    /\ job.kind = "recover"
    /\ result.cause = "Manifest write failed"
    /\ pre.db.files # EmptyMap
    /\ pre.mirror # {}

(***************************************************************************)
(* Errors that end a transfer.                                             *)
(***************************************************************************)
\* The four conditions that stop a transfer: no volume mounted, source absent,
\* copy tool missing, Manifest not written.
PhaseFatal ==
    {"No tape mounted", "Source not found", "rsync not found in PATH", "Manifest write failed"}

\* C11: a transfer that ends on one of the four fatal conditions ends by raising
\* TransferError, whichever of the four it was.
C11_FatalRaisesTransferError ==
    (pc = "raised" /\ job.kind = "transfer" /\ result.cause \in PhaseFatal) =>
        result.error = "TransferError"

(***************************************************************************)
(* The Manifest against the count of check_source.                         *)
(***************************************************************************)
\* The files phase 1 appends to excluded_files: one per walked file that matches
\* an exclusion pattern.
ExcludedFiles == {p \in DOMAIN job.tree : should_exclude(p, Excludes)}

\* C12: once a transfer has saved its Manifest, the number of Manifest records
\* plus the number of files skipped by exclusion equals files_total.
C12_RecordsPlusExcludedIsTotal ==
    (InJob /\ job.kind = "transfer" /\ ManifestSaved) =>
        Len(MhlLoad(mhlFiles[result.mhl_path]).hashes) + Cardinality(ExcludedFiles)
            = result.files_total

(***************************************************************************)
(* Exclusion rules against what the jobs record: the same commands over a  *)
(* source whose one file matches an exclusion pattern.  "x.D" holds the    *)
(* exact-substring pattern ".D": _should_exclude skips it, while the copy  *)
(* tool, which anchors the pattern to a whole name, does not.              *)
(***************************************************************************)
ExclTrees == Trees({<<"x", ".", "D">>}, [data : JobData, readable : {TRUE}, mtime : {Mtime}], 1)

ExclTransfer == TransferStart(JobNames, JobTapes, ExclTrees, {TRUE})

ExclCopy == Phase2(JobData, {})

ExclRecover == RecoverStart(JobNames, JobTapes, ExclTrees)

ExclNext ==
    \/ ExclTransfer
    \/ Phase1
    \/ ExclCopy
    \/ Phase3
    \/ Phase4
    \/ ExclRecover
    \/ RecoverPhase4
    \/ JobsFinalize
    \/ FinalizePhase4
    \/ Phase5a
    \/ Phase5bTape
    \/ Phase5bFiles
    \/ JobEnd
    \/ Abort

SpecExcl == InitState /\ [][ExclNext]_vars

Excluded(path) == should_exclude(path, Excludes)

\* C13: no path that matches an exclusion rule is a ledger key, a record of a
\* Manifest, a mirror placeholder or a catalog entry, in any state the transfer,
\* recover and finalize commands reach from an empty archive.
C13_ExcludedNeverRecorded ==
    /\ \A i \in 1..Len(ledger) : ~Excluded(ledger[i].path)
    /\ \A f \in DOMAIN mhlFiles : \A e \in Range(MhlLoad(mhlFiles[f]).hashes) : ~Excluded(e.file)
    /\ \A m \in mirror : ~Excluded(m[3])
    /\ \A k \in DOMAIN db.files : ~Excluded(k[2])

(***************************************************************************)
(* One transfer of a one-file source whose copy may come out with another  *)
(* length: the two contents below have different sizes and, at the digest  *)
(* width of the model, the same digest.                                    *)
(***************************************************************************)
SizeData == {<<1>>, <<0, 0>>}

SizeTrees == Trees({<<"a">>}, [data : SizeData, readable : {TRUE}, mtime : {Mtime}], 1)

SizeStart == TransferStart({"s1"}, {"T1"}, SizeTrees, {TRUE})

SizeCopy == Phase2(SizeData, {})

SizeNext ==
    \/ SizeStart
    \/ Phase1
    \/ SizeCopy
    \/ Phase3
    \/ Phase4
    \/ Phase5a
    \/ Phase5bTape
    \/ Phase5bFiles
    \/ VerifyRun
    \/ Abort

SpecSizes == InitState /\ [][SizeNext]_vars

\* The readable destination files under ledger key k whose size is not the size
\* the ledger records for k.
SizeDiffers(k) ==
    {n \in DestOf(k) :
        /\ dest[<<job.source_name, n>>].readable
        /\ st_size(dest[<<job.source_name, n>>].data) # DictGet(ledger, k).size}

\* C14: phase 3 and verify() report as failed every destination file whose size
\* differs from the recorded size, also when its digest equals the recorded digest.
C14_SizeMismatchFails ==
    /\ (Phase3Ran /\ pc # "phase3") =>
          \A k \in DictKeys(ledger) :
             SizeDiffers(k) # {} => \E j \in 1..Len(result.failed_files) : result.failed_files[j][1] = k
    /\ pc = "verified" =>
          \A e \in Range(MhlLoad(mhlFiles[result.mhl_path]).hashes) :
             (/\ <<job.source_name, e.file>> \in DOMAIN dest
              /\ dest[<<job.source_name, e.file>>] # Dir
              /\ dest[<<job.source_name, e.file>>].readable
              /\ st_size(dest[<<job.source_name, e.file>>].data) # e.size)
             => \E j \in 1..Len(vresult.failed_files) : vresult.failed_files[j][1] = e.file

(***************************************************************************)
(* add_files on its own: calls on one catalog, each recorded beside the    *)
(* catalog it was made on (job holds the arguments, pre the catalog as it  *)
(* was before the call).                                                   *)
(***************************************************************************)
UpsertPaths == {<<"e", "^">>, <<"E">>}

UpsertEntries ==
    {[path |-> p, size |-> st_size(f.data), mtime |-> f.mtime, xxhash |-> hash_file(f.data)] :
        p \in UpsertPaths,
        f \in {[data |-> <<0>>, mtime |-> <<>>], [data |-> <<0, 0>>, mtime |-> <<1>>]}}

\* The empty list, every one-tuple list, and the two-tuple lists that name one file
\* under both of its spellings.
UpsertBatches ==
    {<<>>} \cup {<<e>> : e \in UpsertEntries}
           \cup {<<e, f>> : e \in {x \in UpsertEntries : x.path = <<"e", "^">>},
                            f \in {x \in UpsertEntries : x.path = <<"E">>}}

UpsertCall ==
    /\ njobs < MaxJobs
    /\ \E name \in CatTapes, batch \in UpsertBatches, archived_at \in {<<0>>, <<1>>} :
          \E failing \in {F \in SUBSET (1..Len(batch)) : Cardinality(F) <= 1} :
              /\ job' = [kind |-> "add_files", tape_name |-> name, batch |-> batch,
                         failing |-> failing, archived_at |-> archived_at]
              /\ pre' = [db |-> db]
              /\ db' = add_files(db, name, batch, failing, archived_at)
    /\ njobs' = njobs + 1
    /\ UNCHANGED <<clock, dest, logFiles, mhlFiles, mirror, pc, ledger, result, vresult, console, mnt>>

SpecUpsert == InitState /\ [][UpsertCall]_vars

\* The (volume, canonical path) pair tuple i of the recorded call addresses.
CallPair(i) == <<job.tape_name, normalize_path(job.batch[i].path)>>

\* The tuples of the recorded call that were committed.
Committed == (1..Len(job.batch)) \ job.failing

\* The committed tuples no later committed tuple of the call overrides.
LastFor == {i \in Committed : \A j \in Committed : CallPair(j) = CallPair(i) => j <= i}

\* C15: no two entries have the same volume and the same canonical path; after
\* add_files the entry of every pair the call addressed carries the size, mtime,
\* digest and archived_at of the call, an entry that existed keeps its id, and the
\* number of entries has grown only by the pairs that had no entry; paths that
\* canonicalize the same address one entry.
C15_OneEntryPerPair ==
    /\ \A k1 \in DOMAIN db.files, k2 \in DOMAIN db.files :
          (k1[1] = k2[1] /\ normalize_path(k1[2]) = normalize_path(k2[2])) => k1 = k2
    /\ njobs > 0 =>
          /\ Cardinality(DOMAIN db.files)
                = Cardinality(DOMAIN pre.db.files \cup {CallPair(i) : i \in Committed})
          /\ \A i \in LastFor :
                /\ CallPair(i) \in DOMAIN db.files
                /\ db.files[CallPair(i)].size = job.batch[i].size
                /\ db.files[CallPair(i)].mtime = job.batch[i].mtime
                /\ db.files[CallPair(i)].xxhash = job.batch[i].xxhash
                /\ db.files[CallPair(i)].archived_at = job.archived_at
                /\ CallPair(i) \in DOMAIN pre.db.files =>
                      db.files[CallPair(i)].id = pre.db.files[CallPair(i)].id
          /\ \A k \in DOMAIN pre.db.files \ {CallPair(i) : i \in Committed} :
                k \in DOMAIN db.files /\ db.files[k] = pre.db.files[k]

\* A call that names an existing entry by its other spelling has replaced its
\* size, mtime, digest and archived_at, and the catalog has as many entries as before.
C15_Witness ==
    /\ njobs = 2
    /\ job.batch # <<>>
    /\ job.batch[1].path = <<"e", "^">>
    /\ Committed = {1}
    /\ <<job.tape_name, <<"E">>>> \in DOMAIN pre.db.files
    /\ <<job.tape_name, <<"E">>>> \in DOMAIN db.files
    /\ pre.db.files[<<job.tape_name, <<"E">>>>].size # db.files[<<job.tape_name, <<"E">>>>].size
    /\ pre.db.files[<<job.tape_name, <<"E">>>>].mtime # db.files[<<job.tape_name, <<"E">>>>].mtime
    /\ pre.db.files[<<job.tape_name, <<"E">>>>].xxhash # db.files[<<job.tape_name, <<"E">>>>].xxhash
    /\ pre.db.files[<<job.tape_name, <<"E">>>>].archived_at # db.files[<<job.tape_name, <<"E">>>>].archived_at
    /\ Cardinality(DOMAIN db.files) = Cardinality(DOMAIN pre.db.files)

(***************************************************************************)
(* The archive over time: transfer, recover and finalize jobs on one-file  *)
(* sources, and between the jobs the catalog operations delete_tape and    *)
(* import_from_mhl on a Manifest of the archive.                           *)
(***************************************************************************)
ArchCopy == Phase2(JobData, {})

ArchDeleteTape ==
    /\ pc = "idle"
    /\ \E name \in JobTapes :
          db' = delete_tape(db, name)
    /\ UNCHANGED NotDB

ArchImportFromMhl ==
    /\ pc = "idle"
    /\ \E f \in DOMAIN mhlFiles :
          db' = import_from_mhl(db, mhlFiles[f], f, NULL, <<clock>>)
    /\ db'.seq <= MaxId
    /\ UNCHANGED NotDB

ArchNext ==
    \/ JobsTransfer
    \/ Phase1
    \/ ArchCopy
    \/ Phase3
    \/ Phase4
    \/ JobsRecover
    \/ RecoverPhase4
    \/ JobsFinalize
    \/ FinalizePhase4
    \/ Phase5a
    \/ Phase5bTape
    \/ Phase5bFiles
    \/ JobEnd
    \/ Abort
    \/ ArchDeleteTape
    \/ ArchImportFromMhl

SpecArchive == InitState /\ [][ArchNext]_vars

\* C16: an entry (volume, path) of the catalog is still an entry after every step
\* of add_tape, add_files, import_from_mhl, transfer, recover and finalize; the
\* only step that removes it is delete_tape of its volume.
C16_EntriesStayUntilDelete ==
    [][\A k \in DOMAIN db.files :
          k \in DOMAIN db'.files \/ db' = delete_tape(db, k[1])]_vars

\* A job has run its catalog update on a catalog that already had an entry, the
\* entry is still there, and the catalog has seen a delete_tape before (the entry
\* has an id above the number of entries).
C16_Witness ==
    /\ pc = "done"
    /\ pre.db.files # EmptyMap
    /\ db # pre.db
    /\ \A k \in DOMAIN pre.db.files : k \in DOMAIN db.files
    /\ \E k \in DOMAIN db.files : db.files[k].id > Cardinality(DOMAIN db.files)

(***************************************************************************)
(* delete_tape against the rest of the catalog.                            *)
(***************************************************************************)
\* C17: a step that is delete_tape(V) leaves no record and no entry of V, leaves
\* the records (with their aggregates) and the entries of every other volume as
\* they were, adds nothing, and returns True exactly when V had a record; when it
\* returns False the catalog is unchanged.
C17_DeleteTapeFrame ==
    [][\A V \in CatTapes :
          db' = delete_tape(db, V) =>
              /\ V \notin DOMAIN db'.tapes
              /\ FilesOfTape(db'.files, V) = {}
              /\ DOMAIN db'.tapes = DOMAIN db.tapes \ {V}
              /\ \A W \in DOMAIN db'.tapes : db'.tapes[W] = db.tapes[W]
              /\ DOMAIN db'.files = DOMAIN db.files \ FilesOfTape(db.files, V)
              /\ \A k \in DOMAIN db'.files : db'.files[k] = db.files[k]
              /\ delete_tape_result(db, V) <=> V \in DOMAIN db.tapes
              /\ delete_tape_result(db, V) <=> db' # db]_vars

\* After delete_tape("T1") of a volume that had entries: T1 has no record, rows
\* have been deleted (more ids handed out than entries left), and T2 still has its
\* entries and its aggregates.
C17_Witness ==
    /\ "T1" \notin DOMAIN db.tapes
    /\ "T2" \in DOMAIN db.tapes
    /\ db.seq > Cardinality(DOMAIN db.files)
    /\ Cardinality(FilesOfTape(db.files, "T2")) = 2
    /\ db.tapes["T2"].file_count = 2
    /\ db.tapes["T2"].total_bytes = 3

(***************************************************************************)
(* The full-text index against the files table.                            *)
(***************************************************************************)
\* C18: in every committed state the index holds exactly one row for every catalog
\* entry, with that entry's id and path, and no other row; no two entries have the
\* same id.
C18_IndexMatchesEntries ==
    /\ db.fts = SetToBag({<<db.files[k].id, k[2]>> : k \in DOMAIN db.files})
    /\ \A k1 \in DOMAIN db.files, k2 \in DOMAIN db.files :
          db.files[k1].id = db.files[k2].id => k1 = k2

\* After deletions (ids have been handed out to rows that are gone), two volumes
\* hold an entry of the same path and the index has their two rows.
C18_Witness ==
    /\ <<"T1", <<"E">>>> \in DOMAIN db.files
    /\ <<"T2", <<"E">>>> \in DOMAIN db.files
    /\ db.seq > Cardinality(DOMAIN db.files)
    /\ BagCardinality(db.fts) = 2
    /\ BagIn(<<db.files[<<"T1", <<"E">>>>].id, <<"E">>>>, db.fts)

(***************************************************************************)
(* The catalog rebuilt from the Manifests of the archive.                  *)
(***************************************************************************)
\* catalog db-init --import-mhls, cli.py 1040-1051: import_from_mhl once per file
\* of mhl_dir, in the order the directory listing yields them.
RECURSIVE ImportAll(_, _, _)
ImportAll(d, order, i) ==
    IF i > Len(order) THEN d
    ELSE ImportAll(import_from_mhl(d, mhlFiles[order[i]], order[i], NULL, <<clock>>), order, i + 1)

\* The entries of a catalog as (volume, path, size, digest).
EntriesOf(d) == {<<k[1], k[2], d.files[k].size, d.files[k].xxhash>> : k \in DOMAIN d.files}

\* C19: between jobs, importing the Manifests of the archive into an empty
\* catalog, in any order, gives the entries (volume, path, size, digest) and the
\* volume aggregates of the catalog the jobs have built.
C19_ReplayRebuildsCatalog ==
    (pc = "idle" /\ njobs > 0) =>
        \A order \in Perms(DOMAIN mhlFiles) :
            /\ EntriesOf(ImportAll(EmptyDB, order, 1)) = EntriesOf(db)
            /\ ImportAll(EmptyDB, order, 1).tapes = db.tapes

\* A necessary part of C19 alone: the result of the import does not depend on the
\* order of the Manifests.
C19_OrderIndependent ==
    \A o1 \in Perms(DOMAIN mhlFiles), o2 \in Perms(DOMAIN mhlFiles) :
        EntriesOf(ImportAll(EmptyDB, o1, 1)) = EntriesOf(ImportAll(EmptyDB, o2, 1))

(***************************************************************************)
(* Recover against phase 5 of transfer.                                    *)
(***************************************************************************)
\* The entries of a catalog as (volume, path, size, mtime, digest).
RowsOf(d) ==
    {<<k[1], k[2], d.files[k].size, d.files[k].mtime, d.files[k].xxhash>> : k \in DOMAIN d.files}

\* The ledger transfer's phase 1 builds from the source tree of the running job.
TransferLedger(walk) ==
    HashSource(job.tree, walk, 1, [hashes |-> <<>>, excluded |-> <<>>]).hashes

\* The catalog transfer's phase 5b writes from that ledger, on the catalog and the
\* destination the running job found.
TransferPhase5Db(walk) ==
    add_files(add_tape(pre.db, job.tape_name), job.tape_name,
              DbBatch(TransferLedger(walk), dest, job.source_name), {}, <<clock>>)

\* The mirror tree transfer's phase 5a leaves.
TransferPhase5Mirror(walk) ==
    pre.mirror \cup Placeholders(job.tape_name, job.source_name, DictKeys(TransferLedger(walk)))

\* C20: a recover run whose catalog update went through leaves the entries (path,
\* size, mtime, digest) and the placeholders that phase 5 of transfer, run on the
\* same source tree, destination and volume name, would have left.
C20_RecoverAsTransferPhase5 ==
    (/\ pc = "done"
     /\ job.kind = "recover"
     /\ DbWarning \notin Range(console)
     /\ pre.skipped = {}) =>
        \E walk \in Perms(DOMAIN job.tree) :
            /\ RowsOf(db) = RowsOf(TransferPhase5Db(walk))
            /\ mirror = TransferPhase5Mirror(walk)

(***************************************************************************)
(* Re-running recover and finalize.  The archive starts with a tape        *)
(* directory that an earlier copy of RerunTree left (directory "s1" for    *)
(* recover, "s2" for finalize), an empty catalog and no Manifest; the      *)
(* source tree and the tape are the same for every run.                    *)
(***************************************************************************)
RerunTree == [p \in {<<"a">>} |-> [data |-> <<0>>, readable |-> TRUE, mtime |-> Mtime]]

RerunRecoverNames == {"s1"}

RerunFinalizeNames == {"s2"}

InitArchived ==
    /\ clock = 0
    /\ \E n \in RerunRecoverNames \cup RerunFinalizeNames,
          ch \in [DOMAIN RerunTree -> [data : JobData, readable : BOOLEAN, mtime : {Mtime} \cup JobStamps] \cup {Skip}] :
          /\ \A p \in DOMAIN ch : ch[p] \in CopyChoices(RerunTree, TRUE, p, JobData, JobStamps)
          /\ dest = CopyImage(EmptyMap, n, ch)
    /\ logFiles = {}
    /\ mhlFiles = EmptyMap
    /\ mirror = {}
    /\ db = EmptyDB
    /\ Idle
    /\ pre = NULL
    /\ njobs = 0
    /\ mnt = NoMount

RerunRecover == RecoverStart(RerunRecoverNames, JobTapes, {RerunTree})

RerunFinalize == FinalizeStart(RerunFinalizeNames, JobTapes)

RerunNext ==
    \/ RerunRecover
    \/ RecoverPhase4
    \/ RerunFinalize
    \/ FinalizePhase4
    \/ Phase5a
    \/ Phase5bTape
    \/ Phase5bFiles
    \/ Tick
    \/ JobEnd

SpecRerun == InitArchived /\ [][RerunNext]_vars

\* The running job is the second run of its command, and the first run got through
\* its Manifest, its placeholders and its catalog update: the archive the second
\* run started on holds all of them.
FirstRunCompleted ==
    /\ njobs = 2
    /\ \E f \in DOMAIN pre.mhlFiles : f[1] = job.tape_name /\ f[2] = job.source_name
    /\ Placeholders(job.tape_name, job.source_name, MirrorKeys) \subseteq pre.mirror
    /\ job.tape_name \in DOMAIN pre.db.tapes
    /\ \A i \in 1..Len(JobBatch) : <<job.tape_name, JobBatch[i].path>> \in DOMAIN pre.db.files

\* The second run left the entries and the aggregates of the catalog as it found them.
RerunKeepsCatalog ==
    /\ EntriesOf(db) = EntriesOf(pre.db)
    /\ db.tapes = pre.db.tapes

\* The second run added one Manifest, with the records of the first run's.
RerunAddsManifest ==
    /\ Cardinality(DOMAIN mhlFiles) = Cardinality(DOMAIN pre.mhlFiles) + 1
    /\ \A f \in DOMAIN mhlFiles \ DOMAIN pre.mhlFiles, g \in DOMAIN pre.mhlFiles :
          MhlLoad(mhlFiles[f]).hashes = MhlLoad(pre.mhlFiles[g]).hashes

\* C21: when recover or finalize has completed a second time on the same source
\* and tape directory, the catalog entries (volume, path, size, digest) and the
\* volume aggregates are those the first run left, and the run has added one new
\* Manifest with the same records.
C21_RerunIdempotent ==
    (pc = "done" /\ job.kind \in {"recover", "finalize"} /\ FirstRunCompleted) =>
        (RerunKeepsCatalog /\ RerunAddsManifest)


\* The ledger finalize's phase 4 builds from the tape directory of the finished job.
FinalizeLedger(walk) == FinalizeHash(dest, job.source_name, walk, 1, <<>>)

\* The catalog finalize's phase 5b writes from that ledger for the job's volume.
FinalizePhase5Db(walk) ==
    add_files(add_tape(db, job.tape_name), job.tape_name,
              DbBatch(FinalizeLedger(walk), dest, job.source_name), {}, <<clock>>)

\* The first job of the archive, a transfer to a destination that was empty, has
\* returned without error, failure or warning and has cataloged its whole batch.
TransferCompleted ==
    /\ pc = "done"
    /\ njobs = 1
    /\ job.kind = "transfer"
    /\ ~job.dry_run
    /\ result.error = NULL
    /\ result.files_failed = 0
    /\ ~Ran(DbWarning)
    /\ pre.skipped = {}
    /\ job.tape_name \in DOMAIN db.tapes

\* C22: after a completed transfer to an empty destination on volume V, finalize
\* of that tape directory for V leaves file_count and total_bytes of V as the
\* transfer left them.
C22_FinalizeKeepsAggregates ==
    TransferCompleted =>
        \A walk \in Perms(DestFiles(dest, job.source_name)) :
            FinalizePhase5Db(walk).tapes[job.tape_name] = db.tapes[job.tape_name]


\* The catalog a further run of phase 5b on the job's batch, with no fault, leaves
\* when it starts from the catalog d.
Phase5Again(d) == add_files(add_tape(d, job.tape_name), job.tape_name, JobBatch, {}, <<clock>>)

\* C23: a job that has entered phase 5 and has ended by itself has returned
\* normally, whatever failed in phase 5; the Manifest phase 4 saved is on disk, and
\* phase 5 run again gives the entries and aggregates of a run without failure.
C23_Phase5FailureIsWarning ==
    (pc \in {"done", "raised"} /\ Ran("Phase 5")) =>
        /\ pc = "done"
        /\ result.error = NULL
        /\ result.mhl_path \in DOMAIN mhlFiles
        /\ mhlFiles[result.mhl_path].tape_info = job.tape_name
        /\ EntriesOf(Phase5Again(db)) = EntriesOf(Phase5Again(pre.db))
        /\ Phase5Again(db).tapes = Phase5Again(pre.db).tapes


\* The rows of the volume's catalog that add_files committed for the job's batch.
CommittedRows == {i \in 1..Len(JobBatch) : i \notin pre.skipped}

\* C24: when add_files has skipped entries of the job's batch, every other entry
\* is in the catalog, the number of files the job prints as added leaves the
\* skipped ones out, and the volume's aggregates are those of its entries.
C24_SkippedEntryIsCounted ==
    (pc = "done" /\ pre.printed_added # <<>>) =>
        /\ \A i \in CommittedRows : <<job.tape_name, normalize_path(JobBatch[i].path)>> \in DOMAIN db.files
        /\ pre.printed_added = <<add_files_result(JobBatch, pre.skipped)>>
        /\ db.tapes[job.tape_name].file_count = Cardinality(FilesOfTape(db.files, job.tape_name))
        /\ db.tapes[job.tape_name].total_bytes
              = SumOver(FilesOfTape(db.files, job.tape_name), SizeOf(db.files))


\* The files of the running job's tree that its hashing loop can read: source files
\* outside the exclusions (transfer, recover) or tape files (finalize).
HashableFiles ==
    IF job.kind = "finalize"
    THEN {p \in DestFiles(dest, job.source_name) : dest[<<job.source_name, p>>].readable}
    ELSE {normalize_path(p) : p \in {q \in DOMAIN job.tree :
                                        job.tree[q].readable /\ ~should_exclude(q, Excludes)}}

\* C25: no job ends with the error of a file that could not be read or stat'ed,
\* and once the hashing loop is over the ledger holds every file it could read.
C25_FileFaultNeverAborts ==
    /\ pc = "raised" => result.cause # StatFailed
    /\ pc \in {"phase2", "phase3", "phase4", "phase5a", "phase5b_tape", "phase5b_files", "done"}
          => (job.dry_run \/ HashableFiles \subseteq DictKeys(ledger))


\* The modification time the claim gives a Manifest record of the running job: the
\* tape copy's when there is one under the recorded name, else the source file's.
TapeElseSourceMtime(file) ==
    IF file \in DestFiles(dest, job.source_name)
    THEN {dest[<<job.source_name, file>>].mtime}
    ELSE {job.tree[p].mtime : p \in {q \in DOMAIN job.tree : normalize_path(q) = file}}

\* C26: every record of the Manifest that phase 4 of a transfer or a recover has
\* saved carries the mtime of the destination copy when that copy can be stat'ed,
\* and the mtime of the source file otherwise.
C26_MtimeTapeElseSource ==
    (InJob /\ job.kind \in {"transfer", "recover"} /\ Ran("Phase 4") /\ result.mhl_path # <<>>) =>
        \A e \in Range(MhlLoad(mhlFiles[result.mhl_path]).hashes) :
            e.last_modification_date \in TapeElseSourceMtime(e.file)


(***************************************************************************)
(* catalog_db.py: the digest queries.  A result list holds one SearchResult *)
(* per row, ordered by (tape_name, path); rows are unique by that pair, so  *)
(* the list is modelled as the set of its elements.                        *)
(***************************************************************************)
SearchResult(d, k) ==
    [tape_name |-> k[1], path |-> k[2], size |-> d.files[k].size,
     mtime |-> d.files[k].mtime, xxhash |-> d.files[k].xxhash]

\* Lines 426-466: SELECT ... FROM files WHERE xxhash = ?
find_by_hash(d, xxhash) ==
    {SearchResult(d, k) : k \in {x \in DOMAIN d.files : d.files[x].xxhash = xxhash}}

\* The query, were its filter HAVING count > 0.
find_duplicates_having_any(d, min_size) ==
    {<<x, find_by_hash(d, x)>> :
        x \in {d.files[k].xxhash : k \in {y \in DOMAIN d.files : d.files[y].size >= min_size}}}

\* Lines 468-494: GROUP BY xxhash over the rows of size >= min_size, HAVING
\* count > 1; each group is then filled by find_by_hash of its digest.
find_duplicates(d, min_size) ==
    {<<x, find_by_hash(d, x)>> :
        x \in {h \in {d.files[k].xxhash : k \in DOMAIN d.files} :
                  Cardinality({k \in DOMAIN d.files :
                                  d.files[k].xxhash = h /\ d.files[k].size >= min_size}) > 1}}

\* The entries of the catalog that carry digest x (and size z).
Carrying(x) == {SearchResult(db, k) : k \in {y \in DOMAIN db.files : db.files[y].xxhash = x}}

CarryingSized(x, z) == {r \in Carrying(x) : r.size = z}

CatDigests == {hash_file(c) : c \in CatData}

CatSizes == {st_size(c) : c \in CatData}

\* The groups find_duplicates yields for digest x.
GroupsOf(x, min_size) == {g \in find_duplicates(db, min_size) : g[1] = x}

ConfigMountPoint == "/media/tape"

MountPoints == {ConfigMountPoint, "/mnt/x", "/mnt/y"}

Platforms == {"macos", "linux"}

\* config.py lines 251-261: the device of config.mount_point differs from its parent's.
is_mounted(mounted) == ConfigMountPoint \in mounted

\* mount.py lines 176-187: the same test on the path given.
verify_mount(mounted, mount_point) == mount_point \in mounted

SafeToEject == "It is now safe to eject the tape"

UnmountTimedOut == "Unmount timed out - tape may be busy writing index. Do NOT eject the tape!"

\* What running the LTFS driver on mount_point can do: exit status (or timeout,
\* or no such binary) and the mount points afterwards.
DriverRuns(mounted, mount_point) ==
    [exit : {"0", "nonzero", "timeout"}, after : {mounted, mounted \cup {mount_point}}]
        \cup {[exit |-> "notfound", after |-> mounted]}

\* What running umount / fusermount -u on mount_point can do.
UmountRuns(mounted, mount_point) ==
    [exit : {"0", "nonzero", "timeout"}, after : {mounted, mounted \ {mount_point}}]

Outcome(mounted, driver, cmd, raised, returned) ==
    [mounted |-> mounted, driver |-> driver, cmd |-> cmd, raised |-> raised, returned |-> returned]

\* mount.py lines 19-108.
mount(mounted, arg, bin_exists, run) ==
    LET mount_point == IF arg = NULL THEN ConfigMountPoint ELSE arg
    IN  IF is_mounted(mounted)
        THEN Outcome(mounted, FALSE, NULL, "Tape already mounted", NULL)
        ELSE IF ~bin_exists
        THEN Outcome(mounted, FALSE, NULL, "LTFS binary not found", NULL)
        ELSE IF run.exit = "notfound"
        THEN Outcome(mounted, FALSE, run.exit, "LTFS binary not found", NULL)
        ELSE IF run.exit = "nonzero"
        THEN Outcome(run.after, TRUE, run.exit, "Mount failed", NULL)
        ELSE IF run.exit = "timeout"
        THEN Outcome(run.after, TRUE, run.exit, "Mount timed out - tape may be stuck loading", NULL)
        ELSE IF ~verify_mount(run.after, mount_point)
        THEN Outcome(run.after, TRUE, run.exit,
                     "Mount command succeeded but mount point is not accessible", NULL)
        ELSE Outcome(run.after, TRUE, run.exit, NULL, mount_point)

\* mount.py lines 111-173; run2 is the umount that Linux falls back to.
unmount(mounted, arg, platform, run1, run2) ==
    LET mount_point == IF arg = NULL THEN ConfigMountPoint ELSE arg
        last == IF run1.exit = "nonzero" /\ platform = "linux" THEN run2 ELSE run1
    IN  IF ~is_mounted(mounted)
        THEN Outcome(mounted, FALSE, NULL, NULL, NULL)
        ELSE IF last.exit = "timeout"
        THEN Outcome(last.after, TRUE, last.exit, UnmountTimedOut, NULL)
        ELSE IF last.exit = "nonzero"
        THEN Outcome(last.after, TRUE, last.exit, "Unmount failed", NULL)
        ELSE IF verify_mount(last.after, mount_point)
        THEN Outcome(last.after, TRUE, last.exit,
                     "Unmount command succeeded but mount point is still mounted", NULL)
        ELSE Outcome(last.after, TRUE, last.exit, NULL, NULL)

\* cli.py lines 138-177: the mount command.
MountCall ==
    /\ \E arg \in MountPoints \cup {NULL}, bin_exists \in BOOLEAN :
          LET mount_point == IF arg = NULL THEN ConfigMountPoint ELSE arg
          IN  \E run \in DriverRuns(mnt.mounted, mount_point) :
                 LET out == mount(mnt.mounted, arg, bin_exists, run)
                 IN  mnt' = [mounted |-> out.mounted, op |-> "mount", mount_point |-> mount_point,
                             before |-> mnt.mounted, platform |-> NULL, driver |-> out.driver,
                             cmd |-> out.cmd, raised |-> out.raised, returned |-> out.returned,
                             printed |-> IF out.raised = NULL THEN <<"Tape mounted">>
                                         ELSE <<"Mount failed">>]
    /\ UNCHANGED <<clock, dest, logFiles, mhlFiles, mirror, db, job, pc, ledger, result, vresult, console, pre, njobs>>

\* cli.py lines 180-206: the unmount command.
UnmountCall ==
    /\ \E arg \in MountPoints \cup {NULL}, platform \in Platforms :
          LET mount_point == IF arg = NULL THEN ConfigMountPoint ELSE arg
          IN  \E run1 \in UmountRuns(mnt.mounted, mount_point) :
              \E run2 \in UmountRuns(run1.after, mount_point) :
                 LET out == unmount(mnt.mounted, arg, platform, run1, run2)
                 IN  mnt' = [mounted |-> out.mounted, op |-> "unmount", mount_point |-> mount_point,
                             before |-> mnt.mounted, platform |-> platform, driver |-> out.driver,
                             cmd |-> out.cmd, raised |-> out.raised, returned |-> out.returned,
                             printed |-> IF out.raised = NULL
                                         THEN <<"Tape unmounted successfully", SafeToEject>>
                                         ELSE <<"Unmount failed">>]
    /\ UNCHANGED <<clock, dest, logFiles, mhlFiles, mirror, db, job, pc, ledger, result, vresult, console, pre, njobs>>

MountNext == MountCall \/ UnmountCall

SpecMount == InitState /\ [][MountNext]_vars

\* C28: a mount call on a path that was a mount point ends with MountError and has
\* not run the LTFS driver; a mount call that returns gives back its path, which is
\* a mount point then.
C28_MountRefusesMounted ==
    mnt.op = "mount" =>
        /\ mnt.mount_point \in mnt.before => (mnt.raised # NULL /\ ~mnt.driver)
        /\ mnt.raised = NULL => (mnt.returned = mnt.mount_point /\ mnt.mount_point \in mnt.mounted)

\* C29: an unmount call that returns leaves its path not mounted; a timeout or a
\* non-zero exit of the last unmount command run ends with MountError, the timeout
\* with the warning not to eject; "safe to eject" is printed only when the path is
\* not mounted.
C29_UnmountConfirmed ==
    mnt.op = "unmount" =>
        /\ mnt.raised = NULL => mnt.mount_point \notin mnt.mounted
        /\ mnt.cmd \in {"timeout", "nonzero"} => mnt.raised # NULL
        /\ mnt.cmd = "timeout" => mnt.raised = UnmountTimedOut
        /\ SafeToEject \in Range(mnt.printed) => mnt.mount_point \notin mnt.mounted


\* C30: whatever the durations of its phases, zero included, no transfer ends with
\* a division by zero: every throughput it writes or returns is a defined value.
C30_NoDivisionByZero ==
    (InJob /\ job.kind = "transfer") => result.error # "ZeroDivisionError"


(***************************************************************************)
(* Jobs on a source whose file names are the decomposed (NFD) and the      *)
(* composed (NFC) form of one name, to a volume that stores names in NFC   *)
(* or as given.                                                            *)
(***************************************************************************)
NamePaths == {<<"e", "^">>, <<"E">>}

NameTrees == Trees(NamePaths, [data : JobData, readable : {TRUE}, mtime : {Mtime}], MaxFiles)

NamesTransfer == TransferStart(JobNames, JobTapes, NameTrees, BOOLEAN)

NamesCopy == Phase2(JobData, {})

NamesRecover == RecoverStart(JobNames, JobTapes, NameTrees)

NamesNext ==
    \/ NamesTransfer
    \/ Phase1
    \/ NamesCopy
    \/ Phase3
    \/ Phase4
    \/ NamesRecover
    \/ RecoverPhase4
    \/ JobsFinalize
    \/ FinalizePhase4
    \/ Phase5a
    \/ Phase5bTape
    \/ Phase5bFiles
    \/ JobEnd

SpecNames == InitState /\ [][NamesNext]_vars

IsNFC(path) == normalize_path(path) = path

\* C31: the keys of the ledger of a transfer or a recover, the paths of the
\* Manifest records, of the catalog entries and of the mirror placeholders, and
\* the keys phase 3 reports its failures under, are all in NFC.
C31_PathsAreCanonical ==
    /\ (InJob /\ job.kind \in {"transfer", "recover"}) => \A k \in DictKeys(ledger) : IsNFC(k)
    /\ \A f \in DOMAIN mhlFiles : \A e \in Range(mhlFiles[f].hashes) : IsNFC(e.file)
    /\ \A k \in DOMAIN db.files : IsNFC(k[2])
    /\ \A m \in mirror : IsNFC(m[3])
    /\ (InJob /\ job.kind = "transfer") =>
          \A j \in 1..Len(result.failed_files) : IsNFC(result.failed_files[j][1])

\* C32: in every Manifest written by a transfer, a recover or a finalize, no
\* two records have the same canonical path.
C32_ManifestPathsDistinct ==
    \A f \in DOMAIN mhlFiles :
        \A i, j \in 1..Len(mhlFiles[f].hashes) :
            normalize_path(mhlFiles[f].hashes[i].file) = normalize_path(mhlFiles[f].hashes[j].file) => i = j

(***************************************************************************)
(* mhl.py at full resolution: a datetime is <<>> (None) or <<second,       *)
(* microsecond>>, a child element of the document is <<>> (absent) or      *)
(* <<text>>.  save writes what to_xml returns, load parses it back.        *)
(***************************************************************************)
InvalidXmlChars == {"\f"}

\* sanitize_xml_string, lines 23-35
sanitize_xml_string(s) == SelectSeq(s, LAMBDA c : c \notin InvalidXmlChars)

\* strftime("%Y-%m-%dT%H:%M:%SZ"): the text names the second, nothing finer.
strftime(dt) == <<dt[1]>>

\* strptime(text, "%Y-%m-%dT%H:%M:%SZ"): a datetime with microsecond 0.
strptime(text) == <<text[1], 0>>

\* str(size) and int(text)
str(n) == <<"decimal", n>>

int(text) == text[2]

\* HashEntry.to_element, lines 48-70
to_element(entry) ==
    [file |-> sanitize_xml_string(normalize_path(entry.file)),
     size |-> str(entry.size),
     lastmodificationdate |-> IF entry.last_modification_date # <<>>
                              THEN <<strftime(entry.last_modification_date)>> ELSE <<>>,
     xxhash64be |-> entry.xxhash64be,
     hashdate |-> IF entry.hash_date # <<>> THEN <<strftime(entry.hash_date)>> ELSE <<>>]

\* HashEntry.from_element, lines 72-106
from_element(elem) ==
    [file |-> normalize_path(elem.file),
     size |-> int(elem.size),
     xxhash64be |-> elem.xxhash64be,
     last_modification_date |-> IF elem.lastmodificationdate # <<>>
                                THEN strptime(elem.lastmodificationdate[1]) ELSE <<>>,
     hash_date |-> IF elem.hashdate # <<>> THEN strptime(elem.hashdate[1]) ELSE <<>>]

\* TapeInfo.to_element, lines 208-228: an empty name writes no element.
tape_to_element(tape_info) == IF tape_info.name # "" THEN <<tape_info.name>> ELSE <<>>

\* TapeInfo.from_element, lines 230-238: findtext("name", "")
tape_from_element(elem) == [name |-> IF elem # <<>> THEN elem[1] ELSE ""]

\* MHL.to_xml, lines 254-299; tape_info is <<>> (None) or <<TapeInfo>>.
to_xml(m) ==
    [tapeinfo |-> IF m.tape_info # <<>> THEN <<tape_to_element(m.tape_info[1])>> ELSE <<>>,
     hash |-> [i \in 1..Len(m.hashes) |-> to_element(m.hashes[i])]]

\* MHL.load, lines 306-325
load(doc) ==
    [tape_info |-> IF doc.tapeinfo # <<>> THEN <<tape_from_element(doc.tapeinfo[1])>> ELSE <<>>,
     hashes |-> [i \in 1..Len(doc.hash) |-> from_element(doc.hash[i])]]

RoundPaths == {<<"a">>, <<"e", "^">>, <<"\f", "a">>}

RoundDates == {<<>>, <<1, 0>>, <<1, 5>>}

RoundEntries ==
    [file : RoundPaths, size : {0, 1}, xxhash64be : {"h1"},
     last_modification_date : RoundDates, hash_date : RoundDates]

RoundManifests ==
    [tape_info : {<<>>, <<[name |-> ""]>>, <<[name |-> "T1"]>>},
     hashes : UNION {[1..n -> RoundEntries] : n \in 0..MaxFiles}]

RoundFile == <<"T1", "s1", 0>>

\* MHL.save, lines 301-304
ManifestSave ==
    /\ pc = "idle"
    /\ \E m \in RoundManifests :
          /\ job' = [kind |-> "manifest", mhl |-> m]
          /\ mhlFiles' = Put(mhlFiles, RoundFile, to_xml(m))
    /\ pc' = "saved"
    /\ UNCHANGED <<clock, dest, logFiles, mirror, db, ledger, result, vresult, console, pre, njobs, mnt>>

\* MHL.load, lines 306-325
ManifestLoad ==
    /\ pc = "saved"
    /\ result' = load(mhlFiles[RoundFile])
    /\ pc' = "loaded"
    /\ UNCHANGED <<clock, dest, logFiles, mhlFiles, mirror, db, job, ledger, vresult, console, pre, njobs, mnt>>

RoundNext ==
    \/ ManifestSave
    \/ ManifestLoad

SpecRound == InitState /\ [][RoundNext]_vars

VolumeName(m) == IF m.tape_info # <<>> THEN <<m.tape_info[1].name>> ELSE <<>>

\* C33: the Manifest loaded from a saved Manifest has the same records in the
\* same order, each with equal path, size, digest, modification timestamp and
\* hash timestamp, and the same volume-info name.
C33_LoadOfSaveIsEqual ==
    pc = "loaded" =>
        /\ result.hashes = job.mhl.hashes
        /\ VolumeName(result) = VolumeName(job.mhl)

PlaceholdersOf(m, V) == {y \in m : y[1] = V}

EntryKeysOf(d, V) == {k \in DOMAIN d.files : k[1] = V}

\* The placeholders and the catalog entries of volume V name the same paths,
\* one placeholder for one entry.
MirrorAgrees(m, d, V) ==
    /\ {x[3] : x \in PlaceholdersOf(m, V)} = {k[2] : k \in EntryKeysOf(d, V)}
    /\ Cardinality(PlaceholdersOf(m, V)) = Cardinality(EntryKeysOf(d, V))

JobCompleted == pc = "done" /\ ~job.dry_run /\ result.error = NULL

DeleteTapeStep == pc = "idle" /\ db' # db /\ \E name \in JobTapes : db' = delete_tape(db, name)

\* C34: when a transfer, a recover or a finalize has completed, and when
\* delete_tape has run, the mirror tree and the catalog database hold, for
\* every volume, a placeholder exactly for every catalog entry.
C34_MirrorMatchesCatalog ==
    /\ [](JobCompleted => \A V \in JobTapes : MirrorAgrees(mirror, db, V))
    /\ [][DeleteTapeStep => \A V \in JobTapes : MirrorAgrees(mirror', db', V)]_vars

DryRunJob == InJob /\ job.kind = "transfer" /\ job.dry_run

ArchiveUntouched ==
    /\ dest' = dest
    /\ logFiles' = logFiles
    /\ mhlFiles' = mhlFiles
    /\ mirror' = mirror
    /\ db' = db

\* C35: a transfer with dry_run set runs no copy and no other phase, changes
\* neither the logs, the Manifests, the mirror tree, the catalog database nor the
\* destination, and returns a result that holds the counted files_total and
\* bytes_total and nothing else.
C35_DryRunChangesNothing ==
    /\ [][(DryRunJob \/ DryRunJob') => ArchiveUntouched]_vars
    /\ [](DryRunJob => /\ pc \in {"done", "raised"}
                       /\ console = <<>>
                       /\ ledger = <<>>)
    /\ []((DryRunJob /\ pc = "done") => result = NewResult(check_source(job.tree)))

C35_Witness ==
    /\ DryRunJob
    /\ pc = "done"
    /\ result.files_total > 0
    /\ DOMAIN db.files # {}
    /\ mirror # {}

(***************************************************************************)
(* Transfers of sources with different leaf names to one volume.           *)
(***************************************************************************)
LeafNames == {"s1", "s2"}

LeafTransfer == TransferStart(LeafNames, JobTapes, JobTrees, {TRUE})

LeafCopy == Phase2(JobData, {})

LeafNext ==
    \/ LeafTransfer
    \/ Phase1
    \/ LeafCopy
    \/ Phase3
    \/ Phase4
    \/ Phase5a
    \/ Phase5bTape
    \/ Phase5bFiles
    \/ JobEnd

SpecLeaf == InitState /\ [][LeafNext]_vars

\* The files on the volume: (source directory, relative path).
WrittenFiles(d) == {k \in DOMAIN d : d[k] # Dir}

\* Every job so far went through: the job at hand completed with its catalog
\* update accepted, the catalog it started from had an entry for every
\* placeholder, and the files on the volume are the files of the placeholders
\* (every copy wrote its files, every job reached phase 5).
AllJobsCompleted ==
    /\ pc = "done"
    /\ job.kind = "transfer"
    /\ ~job.dry_run
    /\ result.error = NULL
    /\ result.files_failed = 0
    /\ ~Ran(DbWarning)
    /\ pre.skipped = {}
    /\ MirrorAgrees(pre.mirror, pre.db, job.tape_name)
    /\ WrittenFiles(dest) = {<<m[2], m[3]>> : m \in PlaceholdersOf(mirror, job.tape_name)}

\* C36: after completed transfer jobs to one volume the catalog has one entry
\* for every file the jobs wrote, and the volume's file_count is the number of
\* files written.
C36_OneEntryPerWrittenFile ==
    AllJobsCompleted =>
        /\ Cardinality(EntryKeysOf(db, job.tape_name)) = Cardinality(WrittenFiles(dest))
        /\ db.tapes[job.tape_name].file_count = Cardinality(WrittenFiles(dest))

\* TransferResult.success, lines 63-65
success(res) == res.files_failed = 0

\* transfer has returned its result (no exception) from a run that was not a dry run.
TransferReturned ==
    /\ pc = "done"
    /\ job.kind = "transfer"
    /\ ~job.dry_run
    /\ result.error = NULL

\* The destination holds source file p, under its name or the NFC form of it,
\* with the digest of the source file.
OnDestination(p) ==
    \E k \in DOMAIN dest :
        /\ k[1] = job.source_name
        /\ dest[k] # Dir
        /\ normalize_path(k[2]) = normalize_path(p)
        /\ hash_file(dest[k].data) = hash_file(job.tree[p].data)

\* C37: when transfer returns a result with success = True, every source file
\* that no exclusion pattern matches is on the destination with the digest of
\* its source.
C37_SuccessMeansAllCopied ==
    (TransferReturned /\ success(result)) =>
        \A p \in DOMAIN job.tree : ~should_exclude(p, Excludes) => OnDestination(p)

\* C38: once phase 3 has run, every ledger key has exactly one outcome:
\* files_verified + files_failed is the number of ledger entries and failed_files
\* has files_failed elements.
C38_OneOutcomePerLedgerKey ==
    (Phase3Ran /\ pc # "phase3") =>
        /\ result.files_verified + result.files_failed = Len(ledger)
        /\ Len(result.failed_files) = result.files_failed

\* VerifyResult.success, lines 38-40
VerifyResult_success(res) == res.failed = 0 /\ res.missing = 0

\* C39: verify() gives every Manifest record exactly one of the outcomes
\* verified, failed and missing: the three counters add up to total_files, the
\* number of records; failed_files and missing_files have failed and missing
\* elements; success holds exactly when nothing failed and nothing is missing,
\* which is when every record is verified.
C39_VerifyClassifiesEachRecord ==
    pc = "verified" =>
        /\ vresult.total_files = Len(MhlLoad(mhlFiles[result.mhl_path]).hashes)
        /\ vresult.verified + vresult.failed + vresult.missing = vresult.total_files
        /\ Len(vresult.failed_files) = vresult.failed
        /\ Len(vresult.missing_files) = vresult.missing
        /\ VerifyResult_success(vresult) <=> (vresult.verified = vresult.total_files)

C39_Witness ==
    /\ pc = "verified"
    /\ vresult.total_files = 2
    /\ vresult.verified = 1
    /\ \E j \in 1..Len(vresult.failed_files) : vresult.failed_files[j][2] = "read error"
====
